---------------------------- MODULE Spec2Model ----------------------------
(***************************************************************************)
(* latex-agent: a Next.js frontend and a FastAPI backend that rank a       *)
(* user's projects against a job description and generate LaTeX resumes.   *)
(*                                                                         *)
(* The module models, component by component:                              *)
(*   - the relevance scorer and top-K ranking (spec.md 4.1, README.md),    *)
(*   - the shared axios client of frontend/src/lib/api.ts,                 *)
(*   - the dashboard page's backend requests,                              *)
(*   - the error paths of the frontend's user actions,                     *)
(*   - the profile / CRUD write-then-read path.                            *)
(* Every component has its own variables, its own initial condition and    *)
(* its own next-state relation; a component's specification leaves the     *)
(* other components in their initial state.                                *)
(***************************************************************************)
EXTENDS Integers, Sequences, FiniteSets, TLC

VARIABLES
    \* relevance scorer
    jdKeywords,     \* the job description's keyword list, as extracted (raw case)
    projects,       \* the user's projects, in insertion order
    rankDone,       \* TRUE when `selected` is the ranking of the current inputs
    scores,         \* the score given to each project, by project id
    selected,       \* the ranking result: <<[id, score]>>, best first, at most TopK
    rerun,          \* TRUE when the ranking was run before on the same inputs
    previousSelected, \* what that earlier run returned, <<>> when there was none
    \* shared API client (frontend/src/lib/api.ts) and the pages that store the token
    lsToken,        \* localStorage 'token': NoToken or the token stored
    location,       \* the page the browser is on
    nextReq,        \* id of the next request the client sends
    inflight,       \* requests sent and not yet answered
    delivered,      \* requests answered, with the outcome handed to the caller
    tokenWriter,    \* the handler that last wrote localStorage 'token'
    \* dashboard page (app/dashboard/page.tsx)
    envApiUrl,      \* process.env.NEXT_PUBLIC_API_URL, "" when unset
    loadUserPc,     \* where the loadUser effect stands
    loadUserToken,  \* loadUser's local `token`
    linkedinPc,     \* where handleLinkedInConnect stands
    uploadPc,       \* where the resume-upload onChange handler stands
    uploadToken,    \* the upload handler's local `token`
    currentUser,    \* the currentUser state
    dashRequests,   \* every backend request the page has issued
    dashToasts,     \* every toast the page has shown
    dashLoad,       \* how the page was opened and what the profile load got
    \* user actions and their error paths
    uiStarted,      \* number of user actions triggered so far
    uiPending,      \* user actions whose request is in flight
    uiOutcomes,     \* user actions answered, with the toast shown
    \* writing and reading back
    srvStore,       \* the backend's records of each kind, by id
    srvProfile,     \* the backend's profile of the user
    crudWrites,     \* number of writes sent so far
    crudWritten,    \* for each record, the fields written and their last values
    crudRead,       \* the records the last get or list returned
    profile,        \* ProfileView's profile state, NoProfile before it loads
    profileFromServer, \* profile is a backend answer the user has not edited
    saving,         \* ProfileView's saving flag
    profilePut,     \* the PUT of handleSave in flight, NoPut when there is none
    profileWritten, \* the form's values at the last save the backend stored
    saveToasts,     \* the toasts of handleSave, oldest first
    \* LLM API-key rotation (backend)
    keyIndex,       \* the configured key the next LLM call uses, 1..NumKeys
    llmPc,          \* "idle", or "calling" while a generation request is served
    llmAttempts,    \* the LLM calls of the current request: <<[key, outcome]>>
    llmResults,     \* how each generation request ended, oldest first
    \* resume editor (app/dashboard/resumes/[id]/edit/page.tsx)
    edLoaded,       \* the resume query has data: the editor is on screen
    edLatex,        \* the latexContent state, shown in the editor
    edUnsaved,      \* the hasUnsavedChanges state
    edResume,       \* the resume query's data: [latex, status]
    edFetching,     \* a refetch of the resume query is in flight
    edSavePending,  \* saveMutation.isPending
    edSaveBody,     \* the latex_content of saveMutation's request in flight
    edCompileRun,   \* the last run of compileMutation and how far it got
    edTyped,        \* the text the user last left in the editor
    edActions,      \* number of edits, saves and compiles so far
    edSrvLatex,     \* the backend's latex_content of the resume
    edSrvStatus,    \* the backend's status of the resume
    \* creating a resume: the new-resume wizard and the Create Resume modal
    crPage,         \* what is on screen: "none", "wizard" or "modal"
    crClicks,       \* number of create actions started so far
    crSrvResumes,   \* the backend's resumes, in creation order
    wizStep,        \* the wizard's step
    wizPrevStep,    \* the step the wizard was on before its last move
    wizTemplate,    \* selectedTemplateId, "" for null
    wizProjects,    \* selectedProjectIds
    wizJob,         \* selectedJobId, "" for null
    wizPersonal,    \* personalInfo: [name, email]
    wizRun,         \* the last run of the wizard's createMutation
    mdName,         \* the modal's name input
    mdJob,          \* the modal's selectedJob
    mdCreate,       \* the last run of the modal's createMutation
    mdGenerate,     \* the last run of the modal's generateMutation
    \* GitHub OAuth callback route (app/api/auth/callback/github/route.ts)
    cbPc,           \* "idle", or "exchange" while the route awaits the backend
    cbCode,         \* the code of the request being served
    cbBackendCalls, \* number of code exchanges sent to the backend
    cbLog,          \* the requests served: parameters, exchange and redirect
    \* Download PDF: the resume list and the resume editor
    dlList,         \* the ['resumes'] query data of the list, by resume id
    dlEditor,       \* the ['resume', id] query data of the editor
    dlClicks,       \* number of clicks on a PDF button so far
    dlInflight,     \* the download requests sent and not yet answered
    dlLog,          \* what each click did: page, resume clicked, request sent
    dlToasts,       \* the toasts the two pages have shown
    \* Import from GitHub (GithubImportModal, components/dashboard/projects-list.tsx)
    impMode,        \* importMode: "dropdown" or "url"
    impRepoUrl,     \* the repoUrl input, as text
    impSelectedRepo, \* selectedRepo: the html_url picked in the dropdown, as text
    impEntered,     \* the parts the text of each of the two inputs was built from
    impPending,     \* importMutation.isPending: the request in flight, or NoImport
    impCount,       \* number of clicks on Import Repository so far
    impLog          \* what each click did: URL chosen, its parts, request, toast

rankVars == <<jdKeywords, projects, rankDone, scores, selected, rerun,
              previousSelected>>
apiVars == <<lsToken, location, nextReq, inflight, delivered, tokenWriter>>
dashVars == <<envApiUrl, loadUserPc, loadUserToken, linkedinPc, uploadPc,
              uploadToken, currentUser, dashRequests, dashToasts, dashLoad>>

uiVars == <<uiStarted, uiPending, uiOutcomes>>

crudVars == <<srvStore, srvProfile, crudWrites, crudWritten, crudRead, profile,
              profileFromServer, saving, profilePut, profileWritten, saveToasts>>

llmVars == <<keyIndex, llmPc, llmAttempts, llmResults>>

editorVars == <<edLoaded, edLatex, edUnsaved, edResume, edFetching, edSavePending, edSaveBody, edCompileRun, edTyped, edActions, edSrvLatex, edSrvStatus>>

createVars == <<crPage, crClicks, crSrvResumes, wizStep, wizPrevStep, wizTemplate, wizProjects, wizJob, wizPersonal, wizRun, mdName, mdJob, mdCreate, mdGenerate>>

cbVars == <<cbPc, cbCode, cbBackendCalls, cbLog>>

dlVars == <<dlList, dlEditor, dlClicks, dlInflight, dlLog, dlToasts>>

impVars == <<impMode, impRepoUrl, impSelectedRepo, impEntered, impPending, impCount, impLog>>

vars == <<rankVars, apiVars, dashVars, uiVars, crudVars, llmVars, editorVars, createVars, cbVars, dlVars, impVars>>

\* What the actions of one component leave alone.
rankOthers == <<apiVars, dashVars, uiVars, crudVars, llmVars, editorVars, createVars, cbVars, dlVars, impVars>>
apiOthers == <<rankVars, dashVars, uiVars, crudVars, llmVars, editorVars, createVars, cbVars, dlVars, impVars>>
dashOthers == <<rankVars, nextReq, inflight, delivered, uiVars, crudVars, llmVars, editorVars, createVars, cbVars, dlVars, impVars>>
uiOthers == <<rankVars, apiVars, dashVars, crudVars, llmVars, editorVars, createVars, cbVars, dlVars, impVars>>
crudOthers == <<rankVars, apiVars, dashVars, uiVars, llmVars, editorVars, createVars, cbVars, dlVars, impVars>>
llmOthers == <<rankVars, apiVars, dashVars, uiVars, crudVars, editorVars, createVars, cbVars, dlVars, impVars>>
editorOthers == <<rankVars, apiVars, dashVars, uiVars, crudVars, llmVars, createVars, cbVars, dlVars, impVars>>
createOthers == <<rankVars, apiVars, dashVars, uiVars, crudVars, llmVars, editorVars, cbVars, dlVars, impVars>>
cbOthers == <<rankVars, apiVars, dashVars, uiVars, crudVars, llmVars, editorVars, createVars, dlVars, impVars>>
dlOthers == <<rankVars, apiVars, dashVars, uiVars, crudVars, llmVars, editorVars, createVars, cbVars, impVars>>
impOthers == <<rankVars, apiVars, dashVars, uiVars, crudVars, llmVars, editorVars, createVars, cbVars, dlVars>>

-----------------------------------------------------------------------------
(***************************************************************************)
(* Relevance scorer (spec.md 4.1; README.md "Project Ranking Algorithm").  *)
(* The backend module that implements it is not among the source files;    *)
(* it is modelled from the specification and the README.                   *)
(***************************************************************************)

\* Number of projects included in a resume.
TopK == 3

\* Bound: the longest project list the model builds.
MaxProjects == 4

\* Tokens as they occur in job descriptions and project texts, in raw case.
Tokens == {"python", "Python", "react", "REACT", "docker", "java"}

\* Case normalisation of a token (str.lower()).
Lower(t) ==
    CASE t = "Python" -> "python"
      [] t = "REACT"  -> "react"
      [] OTHER        -> t

\* The keyword lists a job description analysis may produce.
KeywordPool ==
    { <<>>,
      <<"python">>,
      <<"Python", "react">>,
      <<"docker", "REACT", "python", "react">> }

\* The texts a project may carry.
TitlePool == { <<"Python">>, <<"java">> }
DescriptionPool == { <<"react", "react">>, <<"java">> }
TechnologiesPool == { <<"python", "docker">>, <<>> }

Min(a, b) == IF a <= b THEN a ELSE b

\* title + description + technologies
CombinedText(p) == p.title \o p.description \o p.technologies

\* The case-normalised token set of a token list.
TokenSetRaw(s) == { s[i] : i \in DOMAIN s }
TokenSet(s) == { Lower(s[i]) : i \in DOMAIN s }

\* Overlap score: the number of tokens common to the two token sets.
ScoreCaseSensitive(kw, p) ==
    Cardinality(TokenSetRaw(kw) \cap TokenSetRaw(CombinedText(p)))
ScoreEmptyMatchesAll(kw, p) ==
    IF kw = <<>> THEN Cardinality(TokenSet(CombinedText(p)))
    ELSE Cardinality(TokenSet(kw) \cap TokenSet(CombinedText(p)))
Score(kw, p) ==
    Cardinality(TokenSet(kw) \cap TokenSet(CombinedText(p)))

\* Insert x into a list sorted by score descending, after every element whose
\* score is at least x's: equal scores keep their insertion order.
RECURSIVE InsertUnstable(_, _)
InsertUnstable(sorted, x) ==
    IF sorted = <<>> THEN <<x>>
    ELSE IF Head(sorted).score > x.score
         THEN <<Head(sorted)>> \o InsertUnstable(Tail(sorted), x)
         ELSE <<x>> \o sorted
RECURSIVE InsertByScore(_, _)
InsertByScore(sorted, x) ==
    IF sorted = <<>> THEN <<x>>
    ELSE IF Head(sorted).score >= x.score
         THEN <<Head(sorted)>> \o InsertByScore(Tail(sorted), x)
         ELSE <<x>> \o sorted

\* Stable sort of the scored projects, score descending.
RECURSIVE SortByScore(_)
SortByScore(scored) ==
    IF scored = <<>> THEN <<>>
    ELSE InsertByScore(SortByScore(SubSeq(scored, 1, Len(scored) - 1)),
                       scored[Len(scored)])

\* The score of every project, by project id (its position in the list).
ScoreAll(kw, ps) == [i \in DOMAIN ps |-> Score(kw, ps[i])]

\* Every project id with its score, in insertion order.
Scored(sc) == [i \in DOMAIN sc |-> [id |-> i, score |-> sc[i]]]

\* The first k elements of a list.
TakeOneMore(s, k) == SubSeq(s, 1, Min(k + 1, Len(s)))
Take(s, k) == SubSeq(s, 1, Min(k, Len(s)))

\* Rank the projects against the keywords and keep the top K.
RECURSIVE SortByScoreTiesReversed(_)
SortByScoreTiesReversed(scored) ==
    IF scored = <<>> THEN <<>>
    ELSE InsertUnstable(SortByScoreTiesReversed(SubSeq(scored, 1, Len(scored) - 1)),
                        scored[Len(scored)])
RankProjectsTiesByRun(kw, ps) ==
    IF rankDone
    THEN Take(SortByScoreTiesReversed(Scored(ScoreAll(kw, ps))), TopK)
    ELSE Take(SortByScore(Scored(ScoreAll(kw, ps))), TopK)
RankProjects(kw, ps) == Take(SortByScore(Scored(ScoreAll(kw, ps))), TopK)

RankInit ==
    /\ jdKeywords = <<>>
    /\ projects = <<>>
    /\ rankDone = FALSE
    /\ scores = <<>>
    /\ selected = <<>>
    /\ rerun = FALSE
    /\ previousSelected = <<>>

\* A job description is analysed: its keywords replace the current ones.
SetJobKeywords ==
    \E kw \in KeywordPool :
        /\ kw # jdKeywords
        /\ jdKeywords' = kw
        /\ rankDone' = FALSE
        /\ scores' = <<>>
        /\ selected' = <<>>
        /\ rerun' = FALSE
        /\ previousSelected' = <<>>
        /\ UNCHANGED <<projects, rankOthers>>

\* A project is created or imported: it is appended to the user's projects.
AddProject ==
    \E t \in TitlePool, d \in DescriptionPool, tech \in TechnologiesPool :
        /\ Len(projects) < MaxProjects
        /\ projects' = Append(projects,
                              [id |-> Len(projects) + 1, title |-> t,
                               description |-> d, technologies |-> tech])
        /\ rankDone' = FALSE
        /\ scores' = <<>>
        /\ selected' = <<>>
        /\ rerun' = FALSE
        /\ previousSelected' = <<>>
        /\ UNCHANGED <<jdKeywords, rankOthers>>

\* Resume generation ranks the projects against the job description.  It
\* may be asked again for the same job description and projects; the result
\* of the run before is kept beside the new one.
GenerateRanking ==
    /\ scores' = ScoreAll(jdKeywords, projects)
    /\ selected' = RankProjects(jdKeywords, projects)
    /\ rankDone' = TRUE
    /\ rerun' = rankDone
    /\ previousSelected' = IF rankDone THEN selected ELSE <<>>
    /\ UNCHANGED <<jdKeywords, projects, rankOthers>>

NextRank ==
    \/ SetJobKeywords
    \/ AddProject
    \/ GenerateRanking

-----------------------------------------------------------------------------
(***************************************************************************)
(* The shared API client: frontend/src/lib/api.ts, with the login page and *)
(* the dashboard's logout, which write the token the client reads.         *)
(* Every caller of the client is a 'use client' component calling from an  *)
(* effect or an event handler, so `typeof window !== 'undefined'` holds    *)
(* for every request the program sends.                                    *)
(***************************************************************************)

\* Bound: the number of requests the model sends through the client.
MaxRequests == 3

\* localStorage.getItem('token') === null
NoToken == "null"

\* The access tokens the backend issues.
AccessTokens == {"jwt1", "jwt2"}

\* HTTP status the response interceptor acts on.
Unauthorized == 401

\* Responses of the backend: a status, or no response at all (network error).
NetworkError == [received |-> FALSE, status |-> 0]
HttpResponse(st) == [received |-> TRUE, status |-> st]
Responses == { HttpResponse(st) : st \in {200, 401, 403, 422, 500} } \cup {NetworkError}

\* axios' default validateStatus: 2xx resolves, anything else rejects.
IsError(resp) == ~resp.received \/ resp.status < 200 \/ resp.status >= 300

\* The requests of api.ts: the two that return a token, and all the others.
RequestKinds == {"login", "register", "data"}

\* The page a request is sent from.
Pages == {"/login", "/dashboard"}

\* Request interceptor: the Authorization header set on the request config,
\* <<>> when none is set.
NoHeader == <<>>
AuthHeaderUnconditional(tok) == <<"Bearer", tok>>
AuthHeader(tok) == IF tok # NoToken THEN <<"Bearer", tok>> ELSE NoHeader

\* Response interceptor, error branch: localStorage and location afterwards.
TokenAfterErrorKeepsToken(resp, tok) == tok
TokenAfterErrorAnyDenied(resp, tok) ==
    IF resp.received /\ resp.status \in {Unauthorized, 403} THEN NoToken ELSE tok
TokenAfterError(resp, tok) ==
    IF resp.received /\ resp.status = Unauthorized THEN NoToken ELSE tok
LocationAfterError(resp, loc) ==
    IF resp.received /\ resp.status = Unauthorized THEN "/login" ELSE loc

ApiInit ==
    /\ lsToken = NoToken
    /\ location = "/login"
    /\ nextReq = 1
    /\ inflight = {}
    /\ delivered = {}
    /\ tokenWriter = "none"

\* api.get / api.post / ...: the request interceptor runs and the request
\* leaves. `stored` records what localStorage held at that moment, and
\* `after` the handler that had last written it.
SendRequest(kind) ==
    /\ nextReq <= MaxRequests
    /\ kind \in {"login", "register"} => location = "/login"
    /\ kind = "data" => location = "/dashboard"
    /\ inflight' = inflight \cup
          {[id |-> nextReq, kind |-> kind, stored |-> lsToken,
            auth |-> AuthHeader(lsToken), after |-> tokenWriter]}
    /\ nextReq' = nextReq + 1
    /\ UNCHANGED <<lsToken, location, delivered, tokenWriter, apiOthers>>

\* A 2xx response: the interceptor passes it on; handleLogin / handleRegister
\* store res.data.access_token and push /dashboard.
RespondSuccess(r, resp, issued) ==
    /\ r \in inflight
    /\ ~IsError(resp)
    /\ inflight' = inflight \ {r}
    /\ delivered' = delivered \cup
          {[id |-> r.id, kind |-> r.kind, auth |-> r.auth, resp |-> resp,
            outcome |-> "resolved"]}
    /\ IF r.kind \in {"login", "register"}
       THEN lsToken' = issued /\ location' = "/dashboard" /\ tokenWriter' = r.kind
       ELSE UNCHANGED <<lsToken, location, tokenWriter>>
    /\ UNCHANGED <<nextReq, apiOthers>>

\* An error response or no response: the interceptor's error branch runs and
\* rejects; the caller's catch / onError only toasts.
RespondError(r, resp) ==
    /\ r \in inflight
    /\ IsError(resp)
    /\ inflight' = inflight \ {r}
    /\ lsToken' = TokenAfterError(resp, lsToken)
    /\ location' = LocationAfterError(resp, location)
    /\ tokenWriter' = IF resp.received /\ resp.status = Unauthorized
                      THEN "unauthorized" ELSE tokenWriter
    /\ delivered' = delivered \cup
          {[id |-> r.id, kind |-> r.kind, auth |-> r.auth, resp |-> resp,
            outcome |-> "rejected"]}
    /\ UNCHANGED <<nextReq, apiOthers>>

\* DashboardPage.handleLogout
Logout ==
    /\ location = "/dashboard"
    /\ lsToken' = NoToken
    /\ location' = "/login"
    /\ tokenWriter' = "logout"
    /\ UNCHANGED <<nextReq, inflight, delivered, apiOthers>>

NextApi ==
    \/ \E kind \in RequestKinds : SendRequest(kind)
    \/ \E r \in inflight, resp \in Responses, issued \in AccessTokens :
          RespondSuccess(r, resp, issued)
    \/ \E r \in inflight, resp \in Responses : RespondError(r, resp)
    \/ Logout

-----------------------------------------------------------------------------
(***************************************************************************)
(* The dashboard page (src/unnamed/part_005, app/dashboard/page.tsx).  It  *)
(* talks to the backend with fetch, not through the shared client, so the  *)
(* client's interceptors do not run for these requests.                    *)
(***************************************************************************)

\* The fallback backend of `process.env.NEXT_PUBLIC_API_URL || '...'`, which
\* is also the literal the page's other fetch calls are written with.
LocalBackend == "http://localhost:8000"

\* The values NEXT_PUBLIC_API_URL is deployed with; "" is unset.
DeployedApiUrls == {"", "https://api.example.com"}

\* const apiUrl = process.env.NEXT_PUBLIC_API_URL || 'http://localhost:8000'
ApiUrl(env) == IF env # "" THEN env ELSE LocalBackend

\* The base URL of each fetch of the page, as written in the source.
LoadUserBase(env) == ApiUrl(env)
LinkedInAuthorizeBase(env) == LocalBackend
UploadResumeBase(env) == LocalBackend
UploadReloadBase(env) == LocalBackend

\* What a fetch of the page can come back with. fetch rejects on a network
\* error only; response.ok is a 2xx status.
DashResponses == { HttpResponse(200), HttpResponse(401), HttpResponse(500), NetworkError }
Ok(resp) == resp.received /\ resp.status >= 200 /\ resp.status < 300

\* The body of a response, as far as the page looks at it.
Bodies == {"authorization_url", "detail", "not json"}

DashRequest(endpoint, base, tok) == [endpoint |-> endpoint, base |-> base, auth |-> tok]

\* The page has not been opened; the profile load has no answer.
NoAnswerYet == [received |-> FALSE, status |-> -1]
NoLoad == [github |-> "", tokenParam |-> NoToken, storedBefore |-> NoToken,
           profileResp |-> NoAnswerYet]

\* The OAuth-params effect: what localStorage holds after it ran.
TokenAfterOAuthEffect(github, tokenParam, tok) ==
    IF github = "connected" /\ tokenParam # NoToken THEN tokenParam ELSE tok

\* The loadUser effect is declared after the OAuth-params effect and runs
\* after it: its localStorage.getItem sees what that effect stored.
LoadUserReadsBeforeOAuthEffect(before, after) == before
LoadUserReads(before, after) == after

DashInit ==
    /\ dashLoad = NoLoad
    /\ loadUserPc = "unmounted"
    /\ loadUserToken = NoToken
    /\ linkedinPc = "idle"
    /\ uploadPc = "idle"
    /\ uploadToken = NoToken
    /\ currentUser = "null"
    /\ dashRequests = {}
    /\ dashToasts = {}

\* The page is on screen and its handlers can be triggered.
DashboardShown == location = "/dashboard" /\ loadUserPc \notin {"unmounted", "redirected"}

\* The browser arrives on /dashboard, with or without OAuth callback
\* parameters, and the page mounts: the OAuth-params effect runs, then the
\* loadUser effect runs up to its first await.
DashMount(github, tokenParam, error) ==
    /\ loadUserPc = "unmounted"
    /\ dashLoad' = [github |-> github, tokenParam |-> tokenParam,
                     storedBefore |-> lsToken, profileResp |-> NoAnswerYet]
    /\ LET after == TokenAfterOAuthEffect(github, tokenParam, lsToken)
           stored == LoadUserReads(lsToken, after)
           toasts == (IF github = "connected" THEN {"GitHub connected!"} ELSE {})
                     \cup (IF error THEN {"Connection failed"} ELSE {})
       IN /\ lsToken' = after
          /\ tokenWriter' = IF github = "connected" /\ tokenParam # NoToken
                            THEN "github" ELSE tokenWriter
          /\ loadUserToken' = stored
          /\ dashToasts' = dashToasts \cup toasts
          /\ IF stored = NoToken
             THEN /\ location' = "/login"
                  /\ loadUserPc' = "redirected"
                  /\ UNCHANGED dashRequests
             ELSE /\ location' = "/dashboard"
                  /\ loadUserPc' = "profile"
                  /\ dashRequests' = dashRequests \cup
                        {DashRequest("/api/auth/profile", LoadUserBase(envApiUrl), stored)}
    /\ UNCHANGED <<envApiUrl, linkedinPc, uploadPc, uploadToken, currentUser, dashOthers>>

\* loadUser: the profile fetch comes back. Only a 401 is acted on among the
\* failures; a network error lands in the catch, which logs to the console.
LoadUserProfileResponse(resp) ==
    /\ loadUserPc = "profile"
    /\ dashLoad' = [dashLoad EXCEPT !.profileResp = resp]
    /\ IF Ok(resp)
       THEN /\ currentUser' = "user"
            /\ loadUserPc' = "githubStatus"
            /\ dashRequests' = dashRequests \cup
                  {DashRequest("/api/auth/github/status", LoadUserBase(envApiUrl),
                               loadUserToken)}
            /\ UNCHANGED <<lsToken, location, tokenWriter>>
       ELSE /\ loadUserPc' = "done"
            /\ UNCHANGED <<currentUser, dashRequests>>
            /\ IF resp.received /\ resp.status = Unauthorized
               THEN /\ lsToken' = NoToken
                    /\ location' = "/login"
                    /\ tokenWriter' = "loadUser"
               ELSE UNCHANGED <<lsToken, location, tokenWriter>>
    /\ UNCHANGED <<envApiUrl, loadUserToken, linkedinPc, uploadPc, uploadToken,
                   dashToasts, dashOthers>>

\* loadUser: the GitHub status fetch comes back; the LinkedIn status fetch
\* follows unless the fetch threw.
LoadUserGithubResponse(resp) ==
    /\ loadUserPc = "githubStatus"
    /\ IF resp.received
       THEN /\ loadUserPc' = "linkedinStatus"
            /\ dashRequests' = dashRequests \cup
                  {DashRequest("/api/auth/linkedin/status", LoadUserBase(envApiUrl),
                               loadUserToken)}
       ELSE /\ loadUserPc' = "done"
            /\ UNCHANGED dashRequests
    /\ UNCHANGED <<lsToken, location, envApiUrl, loadUserToken, linkedinPc, uploadPc,
                   uploadToken, currentUser, dashToasts, dashLoad,
                   tokenWriter, dashOthers>>

\* loadUser: the LinkedIn status fetch comes back.
LoadUserLinkedinResponse(resp) ==
    /\ loadUserPc = "linkedinStatus"
    /\ loadUserPc' = "done"
    /\ UNCHANGED <<lsToken, location, envApiUrl, loadUserToken, linkedinPc, uploadPc,
                   uploadToken, currentUser, dashRequests, dashToasts, dashLoad,
                   tokenWriter, dashOthers>>

\* handleLinkedInConnect, up to its await.
LinkedInConnect ==
    /\ DashboardShown
    /\ linkedinPc = "idle"
    /\ linkedinPc' = "authorize"
    /\ dashRequests' = dashRequests \cup
          {DashRequest("/api/auth/linkedin/authorize", LinkedInAuthorizeBase(envApiUrl),
                       lsToken)}
    /\ UNCHANGED <<lsToken, location, envApiUrl, loadUserPc, loadUserToken, uploadPc,
                   uploadToken, currentUser, dashToasts, dashLoad,
                   tokenWriter, dashOthers>>

\* handleLinkedInConnect, after its await: response.json() is read whatever
\* the status; a body with authorization_url sends the browser there.
LinkedInConnectResponse(resp, body) ==
    /\ linkedinPc = "authorize"
    /\ linkedinPc' = "idle"
    /\ IF ~resp.received \/ body = "not json"
       THEN /\ dashToasts' = dashToasts \cup {"Error"}
            /\ UNCHANGED location
       ELSE IF body = "authorization_url"
       THEN /\ location' = "https://www.linkedin.com/oauth"
            /\ UNCHANGED dashToasts
       ELSE /\ dashToasts' = dashToasts \cup {"Configuration Error"}
            /\ UNCHANGED location
    /\ UNCHANGED <<lsToken, envApiUrl, loadUserPc, loadUserToken, uploadPc,
                   uploadToken, currentUser, dashRequests, dashLoad,
                   tokenWriter, dashOthers>>

\* The resume-upload onChange handler, up to its first await.
UploadResume ==
    /\ DashboardShown
    /\ uploadPc = "idle"
    /\ uploadPc' = "upload"
    /\ uploadToken' = lsToken
    /\ dashRequests' = dashRequests \cup
          {DashRequest("/api/auth/upload-resume", UploadResumeBase(envApiUrl), lsToken)}
    /\ UNCHANGED <<lsToken, location, envApiUrl, loadUserPc, loadUserToken, linkedinPc,
                   currentUser, dashToasts, dashLoad,
                   tokenWriter, dashOthers>>

\* The upload comes back: on success the profile is fetched again.
UploadResumeResponse(resp, body) ==
    /\ uploadPc = "upload"
    /\ IF ~resp.received \/ body = "not json"
       THEN /\ dashToasts' = dashToasts \cup {"Upload error"}
            /\ uploadPc' = "idle"
            /\ UNCHANGED dashRequests
       ELSE IF Ok(resp)
       THEN /\ dashToasts' = dashToasts \cup {"Resume uploaded!"}
            /\ uploadPc' = "reload"
            /\ dashRequests' = dashRequests \cup
                  {DashRequest("/api/auth/profile", UploadReloadBase(envApiUrl), uploadToken)}
       ELSE /\ dashToasts' = dashToasts \cup {"Upload failed"}
            /\ uploadPc' = "idle"
            /\ UNCHANGED dashRequests
    /\ UNCHANGED <<lsToken, location, envApiUrl, loadUserPc, loadUserToken, linkedinPc,
                   uploadToken, currentUser, dashLoad,
                   tokenWriter, dashOthers>>

\* The profile reload after an upload comes back.
UploadReloadResponse(resp) ==
    /\ uploadPc = "reload"
    /\ uploadPc' = "idle"
    /\ currentUser' = IF Ok(resp) THEN "user" ELSE currentUser
    /\ dashToasts' = IF ~resp.received THEN dashToasts \cup {"Upload error"} ELSE dashToasts
    /\ UNCHANGED <<lsToken, location, envApiUrl, loadUserPc, loadUserToken, linkedinPc,
                   uploadToken, dashRequests, dashLoad,
                   tokenWriter, dashOthers>>

\* The client and its callers, with the landing on the dashboard that the
\* GitHub callback route redirects to (?github=connected&token=...).
NextSession ==
    \/ NextApi
    \/ DashMount("connected", "jwt2", FALSE)

NextDash ==
    \/ \E github \in {"", "connected"}, tokenParam \in {NoToken, "jwt2"},
          error \in BOOLEAN : DashMount(github, tokenParam, error)
    \/ \E resp \in DashResponses : LoadUserProfileResponse(resp)
    \/ \E resp \in DashResponses : LoadUserGithubResponse(resp)
    \/ \E resp \in DashResponses : LoadUserLinkedinResponse(resp)
    \/ LinkedInConnect
    \/ \E resp \in DashResponses, body \in Bodies : LinkedInConnectResponse(resp, body)
    \/ UploadResume
    \/ \E resp \in DashResponses, body \in Bodies : UploadResumeResponse(resp, body)
    \/ \E resp \in DashResponses : UploadReloadResponse(resp)
    \/ Logout

-----------------------------------------------------------------------------
(***************************************************************************)
(* The error paths of the frontend's user actions.  Each component's       *)
(* requests are react-query queries and mutations, or async handlers with  *)
(* try/catch.  A mutation started with mutate() and given no onError, and  *)
(* a query whose error is not read, end silently when the request fails.   *)
(* For each component the operator below gives the title of the toast the  *)
(* code shows when the request of an operation ends, NoToast when it shows *)
(* none.                                                                   *)
(***************************************************************************)

\* Bound: the number of user actions the model triggers.
MaxUiActions == 2

NoToast == "(no toast)"

\* JobsList and AddJobModal (src/unnamed/part_007)
JobsListToast(op, ok) ==
    CASE op = "list"    -> NoToast
      [] op = "delete"  -> IF ok THEN "Job description deleted" ELSE NoToast
      [] op = "analyze" -> IF ok THEN "Job description analyzed" ELSE "Analysis failed"
      [] op = "create"  -> IF ok THEN "Job description added"
                                 ELSE "Failed to add job description"

\* TemplatesList, AddTemplateModal and PreviewModal (templates-list.tsx)
TemplatesListToast(op, ok) ==
    CASE op = "list"    -> NoToast
      [] op = "get"     -> NoToast
      [] op = "delete"  -> IF ok THEN "Template deleted" ELSE NoToast
      [] op = "create"  -> IF ok THEN "Template created" ELSE "Failed to create template"

\* ProjectsList, AddProjectModal and GithubImportModal (projects-list.tsx)
ProjectsListToast(op, ok) ==
    CASE op = "list"    -> NoToast
      [] op = "delete"  -> IF ok THEN "Project deleted successfully"
                                 ELSE "Failed to delete project"
      [] op = "create"  -> IF ok THEN "Project created successfully"
                                 ELSE "Failed to create project"
      [] op = "import"  -> IF ok THEN "Repository imported successfully"
                                 ELSE "Failed to import repository"

\* ResumesList and CreateResumeModal (app/dashboard/linkedin-callback/page.tsx)
ResumesListToast(op, ok) ==
    CASE op = "list"     -> NoToast
      [] op = "delete"   -> IF ok THEN "Resume deleted" ELSE NoToast
      [] op = "download" -> IF ok THEN NoToast ELSE "Failed to download PDF"
      [] op = "create"   -> IF ok THEN "Resume created" ELSE "Failed to create resume"

\* ResumeEditorPage (app/dashboard/resumes/[id]/edit/page.tsx); a compile
\* that is answered 2xx toasts 'Compiled!' or 'Compilation failed'.
ResumeEditorToast(op, ok) ==
    CASE op = "get"      -> NoToast
      [] op = "save"     -> IF ok THEN "Saved!" ELSE "Error"
      [] op = "compile"  -> IF ok THEN "Compiled!" ELSE "Error"
      [] op = "download" -> IF ok THEN NoToast ELSE "Error"

\* ProfileView (src/unnamed/part_007)
ProfileViewToast(op, ok) ==
    CASE op = "load"     -> IF ok THEN NoToast ELSE "Error"
      [] op = "save"     -> IF ok THEN "Success" ELSE "Error"

\* DashboardPage (src/unnamed/part_005): loadUser's profile fetch and the
\* resume upload.
DashboardToast(op, ok) ==
    CASE op = "loadUser" -> NoToast
      [] op = "upload"   -> IF ok THEN "Resume uploaded!" ELSE "Upload failed"

\* The user-triggered requests of each component.
UiOps ==
    [ JobsList      |-> {"list", "delete", "analyze", "create"},
      TemplatesList |-> {"list", "get", "delete", "create"},
      ProjectsList  |-> {"list", "delete", "create", "import"},
      ResumesList   |-> {"list", "delete", "download", "create"},
      ResumeEditor  |-> {"get", "save", "compile", "download"},
      ProfileView   |-> {"load", "save"},
      Dashboard     |-> {"loadUser", "upload"} ]

UiComponents == DOMAIN UiOps

ToastOf(ui, op, ok) ==
    CASE ui = "JobsList"      -> JobsListToast(op, ok)
      [] ui = "TemplatesList" -> TemplatesListToast(op, ok)
      [] ui = "ProjectsList"  -> ProjectsListToast(op, ok)
      [] ui = "ResumesList"   -> ResumesListToast(op, ok)
      [] ui = "ResumeEditor"  -> ResumeEditorToast(op, ok)
      [] ui = "ProfileView"   -> ProfileViewToast(op, ok)
      [] ui = "Dashboard"     -> DashboardToast(op, ok)

\* The answers of the backend to a user action: success, a validation
\* failure, an upstream failure.  (A 401 also makes the client leave for
\* /login, see the API client above.)
UiResponses == { HttpResponse(200), HttpResponse(422), HttpResponse(500) }

UiInit ==
    /\ uiStarted = 0
    /\ uiPending = {}
    /\ uiOutcomes = {}

\* The user triggers an action: its request leaves.
UiTrigger(ui, op) ==
    /\ uiStarted < MaxUiActions
    /\ [ui |-> ui, op |-> op] \notin uiPending
    /\ uiStarted' = uiStarted + 1
    /\ uiPending' = uiPending \cup {[ui |-> ui, op |-> op]}
    /\ UNCHANGED <<uiOutcomes, uiOthers>>

\* The request of a pending action is answered, and the component's handlers
\* run.
UiComplete(a, resp) ==
    /\ a \in uiPending
    /\ uiPending' = uiPending \ {a}
    /\ uiOutcomes' = uiOutcomes \cup
          {[ui |-> a.ui, op |-> a.op, resp |-> resp,
            toast |-> ToastOf(a.ui, a.op, Ok(resp))]}
    /\ UNCHANGED <<uiStarted, uiOthers>>

NextUi ==
    \/ \E ui \in UiComponents : \E op \in UiOps[ui] : UiTrigger(ui, op)
    \/ \E a \in uiPending, resp \in UiResponses : UiComplete(a, resp)

-----------------------------------------------------------------------------
(***************************************************************************)
(* Writing and reading back: the create forms of the dashboard, the CRUD   *)
(* functions of frontend/src/lib/api.ts, and ProfileView's load and save.  *)
(* The request bodies are built by the frontend code; the backend that     *)
(* stores them is not among the source files and is modelled from spec.md  *)
(* (conventional CRUD records, PATCH and PUT updating the fields sent).    *)
(***************************************************************************)

\* Bound: the number of writes (create, update, profile save) the model sends.
MaxWrites == 2

Kinds == {"projects", "jobs", "templates", "resumes"}

NoFields == [f \in {} |-> ""]

\* `value || undefined`: JSON.stringify leaves an undefined field out.
Optional(field, value) == IF value # "" THEN field :> value ELSE NoFields

\* String.prototype.trim on the pieces the model uses.
Trim(piece) ==
    CASE piece = " react" -> "react"
      [] piece = "fast "  -> "fast"
      [] piece = " "      -> ""
      [] OTHER            -> piece

\* text.split(sep).map(t => t.trim()).filter(Boolean), on the pieces that
\* text.split(sep) yields.
SplitTrim(pieces) ==
    SelectSeq([i \in DOMAIN pieces |-> Trim(pieces[i])], LAMBDA t : t # "")

\* AddProjectModal.createMutation
ProjectCreateBody(form) ==
    [title        |-> form.title,
     description  |-> form.description,
     technologies |-> SplitTrim(form.technologies),
     highlights   |-> SplitTrim(form.highlights)]
    @@ Optional("url", form.url)

\* AddJobModal.createMutation
JobCreateBody(form) ==
    [title    |-> form.title,
     company  |-> form.company,
     raw_text |-> form.rawText]
    @@ Optional("url", form.url)

\* AddTemplateModal.createMutation
TemplateCreateBody(form) ==
    [name          |-> form.name,
     description   |-> form.description,
     latex_content |-> form.latexContent,
     category      |-> form.category]

\* CreateResumeModal.createMutation
ResumeCreateBody(form) ==
    [name |-> form.name]
    @@ Optional("job_description_id", form.selectedJob)
    @@ Optional("template_id", form.selectedTemplate)

CreateBody(kind, form) ==
    CASE kind = "projects"  -> ProjectCreateBody(form)
      [] kind = "jobs"      -> JobCreateBody(form)
      [] kind = "templates" -> TemplateCreateBody(form)
      [] kind = "resumes"   -> ResumeCreateBody(form)

\* resumesApi.updateLatex(id, latex_content)
UpdateLatexBody(latex) == [latex_content |-> latex]

\* What the user may have typed into each form.
Forms ==
    [ projects |->
        { [title |-> "Resume Agent", description |-> "LaTeX resumes",
           technologies |-> <<" react", "">>, highlights |-> <<"">>, url |-> ""],
          [title |-> "Resume Agent", description |-> "",
           technologies |-> <<"python", "docker">>, highlights |-> <<"fast ">>,
           url |-> "https://github.com/u/r"] },
      jobs |->
        { [title |-> "Engineer", company |-> "Acme", rawText |-> "python react", url |-> ""],
          [title |-> "Engineer", company |-> "", rawText |-> "docker",
           url |-> "https://jobs/1"] },
      templates |->
        { [name |-> "Classic", description |-> "", latexContent |-> "\\documentclass",
           category |-> "general"] },
      resumes |->
        { [name |-> "My Resume", selectedJob |-> "", selectedTemplate |-> ""],
          [name |-> "My Resume", selectedJob |-> "job-1", selectedTemplate |-> "tpl-1"] } ]

\* The partial updates sent with projectsApi.update, jobsApi.update and
\* templatesApi.update, and the LaTeX saved with resumesApi.updateLatex.
Patches ==
    [ projects  |-> { [title |-> "Renamed"], [technologies |-> <<>>] },
      jobs      |-> { [raw_text |-> "java"] },
      templates |-> { [latex_content |-> "\\begin{document}"] },
      resumes   |-> { UpdateLatexBody("\\section{Projects}") } ]

\* The backend: POST stores the body under a new id, PATCH and PUT overwrite
\* the fields sent, GET returns the stored record.
ServerCreate(body, id) == body @@ [id |-> id]
ServerUpdate(stored, body) == body @@ stored

\* The fields of ProfileData, and those handleSave sends.
ProfileFields ==
    {"id", "email", "name", "headline", "summary", "location", "phone", "website",
     "linkedin_url", "address_line1", "address_line2", "city", "state", "zip_code",
     "country", "institution", "degree", "field_of_study", "graduation_year",
     "experience", "education", "skills", "certifications"}

\* The fields the profile form lets the user change (every handleChange).
EditableFields == ProfileFields \ {"id", "email"}

\* The body of ProfileView.handleSave's PUT.
ProfilePayloadWithoutCertifications(p) ==
    [f \in EditableFields \ {"certifications"} |-> p[f]]
ProfilePayload(p) ==
    [f \in {"name", "headline", "summary", "location", "phone", "website",
            "linkedin_url", "address_line1", "address_line2", "city", "state",
            "zip_code", "country", "institution", "degree", "field_of_study",
            "graduation_year", "experience", "education", "skills",
            "certifications"} |-> p[f]]

\* The fields the model edits, and the values it gives them.
FieldsEdited == {"name", "certifications"}
FieldValues == {"v1", "v2"}

StoredProfile0 == [f \in ProfileFields |-> "v0"]

\* useState<ProfileData | null>(null); no PUT in flight; no answer yet.
NoProfile == NoFields
NoPut == NoFields
NoAnswer == NoFields

CrudInit ==
    /\ srvStore = [k \in Kinds |-> <<>>]
    /\ srvProfile = StoredProfile0
    /\ crudWrites = 0
    /\ crudWritten = [k \in Kinds |-> <<>>]
    /\ crudRead = {}
    /\ profile = NoProfile
    /\ profileFromServer = FALSE
    /\ saving = FALSE
    /\ profilePut = NoPut
    /\ profileWritten = [f \in EditableFields |-> StoredProfile0[f]]
    /\ saveToasts = <<>>

\* A create form is submitted and the backend answers.
CrudCreate(kind, form, resp) ==
    /\ crudWrites < MaxWrites
    /\ crudWrites' = crudWrites + 1
    /\ LET body == CreateBody(kind, form)
           id == Len(srvStore[kind]) + 1
       IN IF Ok(resp)
          THEN /\ srvStore' = [srvStore EXCEPT ![kind] = Append(@, ServerCreate(body, id))]
               /\ crudWritten' = [crudWritten EXCEPT ![kind] = Append(@, body)]
          ELSE UNCHANGED <<srvStore, crudWritten>>
    /\ crudRead' = {}
    /\ UNCHANGED <<srvProfile, profile, profileFromServer, saving, profilePut,
                   profileWritten, saveToasts,
                   crudOthers>>

\* api.patch: an update of an existing record, and the backend's answer.
CrudUpdate(kind, id, body, resp) ==
    /\ crudWrites < MaxWrites
    /\ id \in DOMAIN srvStore[kind]
    /\ crudWrites' = crudWrites + 1
    /\ IF Ok(resp)
       THEN /\ srvStore' = [srvStore EXCEPT ![kind][id] = ServerUpdate(@, body)]
            /\ crudWritten' = [crudWritten EXCEPT ![kind][id] = body @@ @]
       ELSE UNCHANGED <<srvStore, crudWritten>>
    /\ crudRead' = {}
    /\ UNCHANGED <<srvProfile, profile, profileFromServer, saving, profilePut,
                   profileWritten, saveToasts,
                   crudOthers>>

\* api.get of one record.
CrudGet(kind, id) ==
    /\ id \in DOMAIN srvStore[kind]
    /\ crudRead' = {[kind |-> kind, id |-> id, data |-> srvStore[kind][id]]}
    /\ UNCHANGED <<srvStore, srvProfile, crudWrites, crudWritten, profile,
                   profileFromServer, saving, profilePut, profileWritten, saveToasts,
                   crudOthers>>

\* api.get of the list.
CrudList(kind) ==
    /\ srvStore[kind] # <<>>
    /\ crudRead' = { [kind |-> kind, id |-> id, data |-> srvStore[kind][id]] :
                       id \in DOMAIN srvStore[kind] }
    /\ UNCHANGED <<srvStore, srvProfile, crudWrites, crudWritten, profile,
                   profileFromServer, saving, profilePut, profileWritten, saveToasts,
                   crudOthers>>

\* ProfileView mounts (the Profile tab is opened) and loadProfile is answered.
\* A PUT still in flight belongs to the instance that is gone: the backend
\* handles it, nobody handles its answer.
MountProfileView(resp) ==
    /\ profile' = IF Ok(resp) THEN srvProfile ELSE NoProfile
    /\ profileFromServer' = Ok(resp)
    /\ saving' = FALSE
    /\ profilePut' = IF profilePut = NoPut THEN NoPut
                     ELSE [profilePut EXCEPT !.orphan = TRUE]
    /\ UNCHANGED <<srvStore, srvProfile, crudWrites, crudWritten, crudRead,
                   profileWritten, saveToasts,
                   crudOthers>>

\* ProfileView.handleChange
HandleChange(field, value) ==
    /\ profile # NoProfile
    /\ profile[field] # value
    /\ profile' = [profile EXCEPT ![field] = value]
    /\ profileFromServer' = FALSE
    /\ UNCHANGED <<srvStore, srvProfile, crudWrites, crudWritten, crudRead, saving,
                   profilePut, profileWritten, saveToasts,
                   crudOthers>>

\* ProfileView.handleSave, up to its await: the Save button is disabled
\* while saving.
HandleSave ==
    /\ profile # NoProfile
    /\ ~saving
    /\ profilePut = NoPut
    /\ crudWrites < MaxWrites
    /\ crudWrites' = crudWrites + 1
    /\ saving' = TRUE
    /\ profilePut' = [body |-> ProfilePayload(profile),
                      form |-> [f \in EditableFields |-> profile[f]],
                      resp |-> NoAnswer,
                      orphan |-> FALSE]
    /\ UNCHANGED <<srvStore, srvProfile, crudWritten, crudRead, profile,
                   profileFromServer, profileWritten, saveToasts,
                   crudOthers>>

\* The backend handles the PUT.  What the page shows now predates the write.
ServerPutProfile(resp) ==
    /\ profilePut # NoPut
    /\ profilePut.resp = NoAnswer
    /\ profilePut' = [profilePut EXCEPT !.resp =
                         IF Ok(resp)
                         THEN [ok |-> TRUE,
                               data |-> ServerUpdate(srvProfile, profilePut.body)]
                         ELSE [ok |-> FALSE, data |-> NoFields]]
    /\ IF Ok(resp)
       THEN /\ srvProfile' = ServerUpdate(srvProfile, profilePut.body)
            /\ profileWritten' = profilePut.form
            /\ profileFromServer' = FALSE
       ELSE UNCHANGED <<srvProfile, profileWritten, profileFromServer>>
    /\ UNCHANGED <<srvStore, crudWrites, crudWritten, crudRead, profile,
                   saving, saveToasts,
                   crudOthers>>

\* handleSave after its await: setProfile(response.data) in the try, nothing
\* in the catch.
ProfileAfterSaveAlwaysResponse(p, resp) == resp.data
ProfileAfterSave(p, resp) == IF resp.ok THEN resp.data ELSE p

\* The toast of the try and the toast of the catch.
SaveToast(resp) == IF resp.ok THEN "Success" ELSE "Error"

\* ProfileView.handleSave, after its await.
HandleSaveResponse ==
    /\ profilePut # NoPut
    /\ profilePut.resp # NoAnswer
    /\ profilePut' = NoPut
    /\ IF profilePut.orphan
       THEN UNCHANGED <<profile, profileFromServer, saving, saveToasts>>
       ELSE /\ saving' = FALSE
            /\ profile' = ProfileAfterSave(profile, profilePut.resp)
            /\ profileFromServer' = IF profilePut.resp.ok THEN TRUE
                                    ELSE profileFromServer
            /\ saveToasts' = Append(saveToasts, SaveToast(profilePut.resp))
    /\ UNCHANGED <<srvStore, srvProfile, crudWrites, crudWritten, crudRead,
                   profileWritten, crudOthers>>

NextCrud ==
    \/ \E kind \in Kinds : \E form \in Forms[kind], resp \in UiResponses :
          CrudCreate(kind, form, resp)
    \/ \E kind \in Kinds : \E id \in DOMAIN srvStore[kind], body \in Patches[kind],
          resp \in UiResponses : CrudUpdate(kind, id, body, resp)
    \/ \E kind \in Kinds : \E id \in DOMAIN srvStore[kind] : CrudGet(kind, id)
    \/ \E kind \in Kinds : CrudList(kind)
    \/ \E resp \in UiResponses : MountProfileView(resp)
    \/ \E field \in FieldsEdited, value \in FieldValues : HandleChange(field, value)
    \/ HandleSave
    \/ \E resp \in UiResponses : ServerPutProfile(resp)
    \/ HandleSaveResponse

-----------------------------------------------------------------------------
(***************************************************************************)
(* API-key rotation of the backend's LLM client (spec.md 5 and 7; README   *)
(* "API Rate Limits").  The backend module is not among the source files;  *)
(* it is modelled from the specification: a quota error moves to the next  *)
(* configured key in round-robin order and retries, until every key has    *)
(* been tried; any other error fails the request at once.                  *)
(***************************************************************************)

\* Number of configured keys (GEMINI_API_KEY_1..3).
NumKeys == 3

\* Bound: the number of generation requests the model serves.
MaxLlmRequests == 3

\* What one call of the LLM API can come back with.
LlmOutcomes == {"ok", "quota", "error"}

\* Round-robin successor of a key.
NextKey(k) == (k % NumKeys) + 1

\* Whether a failed call is retried, `tried` calls having been made.
ShouldRetryWhileQuota(outcome, tried) == outcome = "quota"
ShouldRetry(outcome, tried) == outcome = "quota" /\ tried < NumKeys

LlmInit ==
    /\ keyIndex = 1
    /\ llmPc = "idle"
    /\ llmAttempts = <<>>
    /\ llmResults = <<>>

\* A generation request arrives and the first LLM call leaves.
LlmGenerate ==
    /\ llmPc = "idle"
    /\ Len(llmResults) < MaxLlmRequests
    /\ llmPc' = "calling"
    /\ llmAttempts' = <<>>
    /\ UNCHANGED <<keyIndex, llmResults, llmOthers>>

\* The LLM API answers the call in flight: the request succeeds, is retried
\* with the next key, or fails.
LlmAnswer(outcome) ==
    /\ llmPc = "calling"
    /\ llmAttempts' = Append(llmAttempts, [key |-> keyIndex, outcome |-> outcome])
    /\ IF outcome = "ok"
       THEN /\ llmPc' = "idle"
            /\ llmResults' = Append(llmResults, "ok")
            /\ UNCHANGED keyIndex
       ELSE IF ShouldRetry(outcome, Len(llmAttempts) + 1)
       THEN /\ keyIndex' = NextKey(keyIndex)
            /\ UNCHANGED <<llmPc, llmResults>>
       ELSE /\ llmPc' = "idle"
            /\ llmResults' = Append(llmResults, "failed")
            /\ keyIndex' = IF outcome = "quota" THEN NextKey(keyIndex) ELSE keyIndex
    /\ UNCHANGED llmOthers

NextLlm ==
    \/ LlmGenerate
    \/ \E outcome \in LlmOutcomes : LlmAnswer(outcome)

-----------------------------------------------------------------------------
(***************************************************************************)
(* The resume editor page.  The resume is a react-query query; Save and    *)
(* Compile are mutations; an effect copies the query's latex_content into  *)
(* the editor whenever the query's data changes.  The backend keeps the    *)
(* LaTeX it is sent and sets the status on a compile (spec.md 6).          *)
(***************************************************************************)

\* Bound: the number of edits, saves and compiles the model performs.
MaxEditorActions == 4

\* What the user may type, the first being the generated LaTeX.
EditorTexts == {"\\documentclass", "\\section{A}", "\\section{B}"}
GeneratedLatex == "\\documentclass"

\* The query's data before it has any.
NoResume == [latex |-> "", status |-> "none"]

\* compileMutation has not run.
NoCompileRun ==
    [pc |-> "idle", unsaved |-> FALSE, content |-> "", saveSent |-> FALSE,
     saveBody |-> "", saveAnswer |-> "none", compileSent |-> FALSE]

\* compileMutation.mutationFn: `if (hasUnsavedChanges) await updateLatex(...)`
CompileNeverSaves(unsaved) == FALSE
CompileSavesFirst(unsaved) == unsaved

\* useEffect([resume]): the latex_content the effect puts in the editor when
\* the query's data changes; a falsy latex_content leaves the editor alone.
AfterResumeEffect(data, latex) == IF data.latex # "" THEN data.latex ELSE latex

EditorInit ==
    /\ edLoaded = FALSE
    /\ edLatex = ""
    /\ edUnsaved = FALSE
    /\ edResume = NoResume
    /\ edFetching = TRUE
    /\ edSavePending = FALSE
    /\ edSaveBody = ""
    /\ edCompileRun = NoCompileRun
    /\ edTyped = ""
    /\ edActions = 0
    /\ edSrvLatex = GeneratedLatex
    /\ edSrvStatus = "draft"

\* The resume query is answered, at first load or after refetch().  Data
\* equal to what the query holds keeps its identity and runs no effect; the
\* first load is tried again until it succeeds.
ResumeQueryAnswer(resp) ==
    /\ edFetching
    /\ edFetching' = IF Ok(resp) THEN FALSE ELSE ~edLoaded
    /\ LET data == [latex |-> edSrvLatex, status |-> edSrvStatus] IN
       IF Ok(resp) /\ data # edResume
       THEN /\ edResume' = data
            /\ edLatex' = AfterResumeEffect(data, edLatex)
            /\ edLoaded' = TRUE
            /\ edTyped' = IF edLoaded THEN edTyped ELSE AfterResumeEffect(data, edLatex)
       ELSE UNCHANGED <<edResume, edLatex, edLoaded, edTyped>>
    /\ UNCHANGED <<edUnsaved, edSavePending, edSaveBody, edCompileRun, edActions,
                   edSrvLatex, edSrvStatus, editorOthers>>

\* handleEditorChange
EditorChange(value) ==
    /\ edLoaded
    /\ edActions < MaxEditorActions
    /\ value # edLatex
    /\ edActions' = edActions + 1
    /\ edLatex' = value
    /\ edUnsaved' = TRUE
    /\ edTyped' = value
    /\ UNCHANGED <<edLoaded, edResume, edFetching, edSavePending, edSaveBody,
                   edCompileRun, edSrvLatex, edSrvStatus, editorOthers>>

\* The Save button: saveMutation.mutate()
SaveClick ==
    /\ edLoaded
    /\ edActions < MaxEditorActions
    /\ ~edSavePending
    /\ edUnsaved
    /\ edActions' = edActions + 1
    /\ edSavePending' = TRUE
    /\ edSaveBody' = edLatex
    /\ UNCHANGED <<edLoaded, edLatex, edUnsaved, edResume, edFetching, edCompileRun,
                   edTyped, edSrvLatex, edSrvStatus, editorOthers>>

\* saveMutation's request is answered: onSuccess / onError
SaveAnswer(resp) ==
    /\ edSavePending
    /\ edSavePending' = FALSE
    /\ IF Ok(resp)
       THEN /\ edSrvLatex' = edSaveBody
            /\ edUnsaved' = FALSE
            /\ edFetching' = TRUE
       ELSE UNCHANGED <<edSrvLatex, edUnsaved, edFetching>>
    /\ UNCHANGED <<edLoaded, edLatex, edResume, edSaveBody, edCompileRun, edTyped,
                   edActions, edSrvStatus, editorOthers>>

\* The Compile button: compileMutation.mutate(), up to its first await
CompileClick ==
    /\ edLoaded
    /\ edActions < MaxEditorActions
    /\ edCompileRun.pc \in {"idle", "done"}
    /\ edActions' = edActions + 1
    /\ edCompileRun' =
          IF CompileSavesFirst(edUnsaved)
          THEN [pc |-> "saving", unsaved |-> edUnsaved, content |-> edLatex,
                saveSent |-> TRUE, saveBody |-> edLatex, saveAnswer |-> "none",
                compileSent |-> FALSE]
          ELSE [pc |-> "compiling", unsaved |-> edUnsaved, content |-> edLatex,
                saveSent |-> FALSE, saveBody |-> "", saveAnswer |-> "none",
                compileSent |-> TRUE]
    /\ UNCHANGED <<edLoaded, edLatex, edUnsaved, edResume, edFetching, edSavePending,
                   edSaveBody, edTyped, edSrvLatex, edSrvStatus, editorOthers>>

\* compileMutation: its updateLatex is answered; a rejection ends the run in
\* onError, a success sends the compile request.
CompileSaveAnswer(resp) ==
    /\ edCompileRun.pc = "saving"
    /\ IF Ok(resp)
       THEN /\ edSrvLatex' = edCompileRun.saveBody
            /\ edCompileRun' = [edCompileRun EXCEPT !.pc = "compiling",
                                   !.saveAnswer = "ok", !.compileSent = TRUE]
       ELSE /\ edCompileRun' = [edCompileRun EXCEPT !.pc = "done",
                                   !.saveAnswer = "failed"]
            /\ UNCHANGED edSrvLatex
    /\ UNCHANGED <<edLoaded, edLatex, edUnsaved, edResume, edFetching, edSavePending,
                   edSaveBody, edTyped, edActions, edSrvStatus, editorOthers>>

\* compileMutation: the compile request is answered: onSuccess / onError
CompileAnswer(resp, success) ==
    /\ edCompileRun.pc = "compiling"
    /\ edCompileRun' = [edCompileRun EXCEPT !.pc = "done"]
    /\ IF Ok(resp)
       THEN /\ edSrvStatus' = IF success THEN "compiled" ELSE "error"
            /\ edFetching' = TRUE
       ELSE UNCHANGED <<edSrvStatus, edFetching>>
    /\ UNCHANGED <<edLoaded, edLatex, edUnsaved, edResume, edSavePending, edSaveBody,
                   edTyped, edActions, edSrvLatex, editorOthers>>

NextEditor ==
    \/ \E resp \in UiResponses : ResumeQueryAnswer(resp)
    \/ \E value \in EditorTexts : EditorChange(value)
    \/ SaveClick
    \/ \E resp \in UiResponses : SaveAnswer(resp)
    \/ CompileClick
    \/ \E resp \in UiResponses : CompileSaveAnswer(resp)
    \/ \E resp \in UiResponses, success \in BOOLEAN : CompileAnswer(resp, success)

-----------------------------------------------------------------------------
(***************************************************************************)
(* Creating a resume: NewResumePage (src/unnamed/part_006) and             *)
(* CreateResumeModal (app/dashboard/linkedin-callback/page.tsx).  Both     *)
(* send resumesApi.create and then resumesApi.generate from one mutation.  *)
(* The backend stores a resume on a successful create and fills it on a    *)
(* successful generate (spec.md 6).                                        *)
(***************************************************************************)

\* Bound: the number of create actions (button clicks) the model starts.
MaxCreateClicks == 2

\* const steps = [template, projects, job, personal]
Steps == <<"template", "projects", "job", "personal">>
StepIndex(step) == CHOOSE i \in DOMAIN Steps : Steps[i] = step

\* What the lists of the wizard and the selects of the modal offer.
TemplateIds == {"tpl-1"}
ProjectIds == {"prj-1", "prj-2"}
JobIds == {"job-1"}
PersonalNames == {"", "Ann"}
PersonalEmails == {"", "ann@example.com"}
ResumeNames == {"", "My Resume"}

\* A mutation that has not run.
NoRun ==
    [pc |-> "idle", run |-> 0, body |-> NoFields, personal |-> NoFields,
     createAnswer |-> "none", createId |-> 0,
     generateSent |-> FALSE, generateId |-> 0, generateAnswer |-> "none",
     toast |-> "none", succeeded |-> FALSE]

\* A mutation whose mutationFn has just sent its create request.
StartRun(run, body, personal) ==
    [NoRun EXCEPT !.pc = "create", !.run = run, !.body = body, !.personal = personal]

\* canProceed()
CanProceedAlways(step, template, projectIds, personal) == TRUE
CanProceed(step, template, projectIds, personal) ==
    CASE step = "template" -> template # ""
      [] step = "projects" -> Len(projectIds) > 0
      [] step = "job"      -> TRUE
      [] step = "personal" -> personal.name # "" /\ personal.email # ""

\* toggleProject
ToggleProject(projectIds, id) ==
    IF \E i \in DOMAIN projectIds : projectIds[i] = id
    THEN SelectSeq(projectIds, LAMBDA p : p # id)
    ELSE Append(projectIds, id)

\* The body of the wizard's create request; resumeName is left empty.
WizardCreateBody(template, job, projectIds) ==
    [name |-> "My Resume", template_id |-> template, project_ids |-> projectIds]
    @@ Optional("job_description_id", job)

\* The body of the modal's create request, from either button.
ModalCreateBody(name, job) ==
    [name |-> name] @@ Optional("job_description_id", job)

\* Whether a button of the modal is enabled.
CreateDraftEnabled(name, createRun) ==
    name # "" /\ createRun.pc \in {"idle", "done"}
GenerateEnabled(name, job, generateRun) ==
    name # "" /\ job # "" /\ generateRun.pc \in {"idle", "done"}

\* The backend: POST /api/resumes stores a resume under the next id; `by` and
\* `run` tell which request created it.
SrvCreateResume(resumes, by, run) ==
    Append(resumes, [id |-> Len(resumes) + 1, by |-> by, run |-> run,
                     generated |-> FALSE])

\* The backend: POST /api/resumes/{id}/generate fills the resume.
SrvGenerateResume(resumes, id) == [resumes EXCEPT ![id].generated = TRUE]

\* A run after its create request is answered: the generate request with the
\* returned id follows a success, onError a failure.
AfterCreateAnswer(r, ok, id) ==
    IF ok
    THEN [r EXCEPT !.pc = "generate", !.createAnswer = "ok", !.createId = id,
                   !.generateSent = TRUE, !.generateId = id]
    ELSE [r EXCEPT !.pc = "done", !.createAnswer = "failed", !.toast = "error"]

\* A run after its generate request is answered: onSuccess or onError.
AfterGenerateAnswerAlwaysSucceeds(r, ok) ==
    [r EXCEPT !.pc = "done", !.generateAnswer = IF ok THEN "ok" ELSE "failed",
              !.toast = "success", !.succeeded = TRUE]
AfterGenerateAnswer(r, ok) ==
    IF ok
    THEN [r EXCEPT !.pc = "done", !.generateAnswer = "ok", !.toast = "success",
                   !.succeeded = TRUE]
    ELSE [r EXCEPT !.pc = "done", !.generateAnswer = "failed", !.toast = "error"]

CreateInit ==
    /\ crPage = "none"
    /\ crClicks = 0
    /\ crSrvResumes = <<>>
    /\ wizStep = "template"
    /\ wizPrevStep = "template"
    /\ wizTemplate = ""
    /\ wizProjects = <<>>
    /\ wizJob = ""
    /\ wizPersonal = [name |-> "", email |-> ""]
    /\ wizRun = NoRun
    /\ mdName = ""
    /\ mdJob = ""
    /\ mdCreate = NoRun
    /\ mdGenerate = NoRun

wizForm == <<wizStep, wizPrevStep, wizTemplate, wizProjects, wizJob, wizPersonal>>
mdForm == <<mdName, mdJob>>

\* A page that unmounts loses its form state; the next mount starts afresh.
WizardUnmounts ==
    /\ wizStep' = "template"
    /\ wizPrevStep' = "template"
    /\ wizTemplate' = ""
    /\ wizProjects' = <<>>
    /\ wizJob' = ""
    /\ wizPersonal' = [name |-> "", email |-> ""]
ModalUnmounts ==
    /\ mdName' = ""
    /\ mdJob' = ""

\* No mutation of either page has a request in flight.
CreateIdle ==
    /\ wizRun.pc \in {"idle", "done"}
    /\ mdCreate.pc \in {"idle", "done"}
    /\ mdGenerate.pc \in {"idle", "done"}

\* The wizard page is opened: NewResumePage mounts with its initial state and
\* fresh mutations.
OpenWizard ==
    /\ crPage = "none"
    /\ CreateIdle
    /\ crPage' = "wizard"
    /\ wizRun' = NoRun
    /\ mdCreate' = NoRun
    /\ mdGenerate' = NoRun
    /\ UNCHANGED <<crClicks, crSrvResumes, wizForm, mdForm, createOthers>>

\* The template step: a template card is clicked.
SelectTemplate(id) ==
    /\ crPage = "wizard"
    /\ wizStep = "template"
    /\ wizTemplate # id
    /\ wizTemplate' = id
    /\ UNCHANGED <<crPage, crClicks, crSrvResumes, wizStep, wizPrevStep, wizProjects,
                   wizJob, wizPersonal, wizRun, mdForm, mdCreate, mdGenerate,
                   createOthers>>

\* The projects step: a project card is clicked.
ClickProject(id) ==
    /\ crPage = "wizard"
    /\ wizStep = "projects"
    /\ wizProjects' = ToggleProject(wizProjects, id)
    /\ UNCHANGED <<crPage, crClicks, crSrvResumes, wizStep, wizPrevStep, wizTemplate,
                   wizJob, wizPersonal, wizRun, mdForm, mdCreate, mdGenerate,
                   createOthers>>

\* The job step: a job card, or 'No specific job', is clicked.
SelectJob(id) ==
    /\ crPage = "wizard"
    /\ wizStep = "job"
    /\ wizJob # id
    /\ wizJob' = id
    /\ UNCHANGED <<crPage, crClicks, crSrvResumes, wizStep, wizPrevStep, wizTemplate,
                   wizProjects, wizPersonal, wizRun, mdForm, mdCreate, mdGenerate,
                   createOthers>>

\* The personal step: the name or the email input changes.
SetPersonalInfo(name, email) ==
    /\ crPage = "wizard"
    /\ wizStep = "personal"
    /\ wizPersonal # [name |-> name, email |-> email]
    /\ wizPersonal' = [name |-> name, email |-> email]
    /\ UNCHANGED <<crPage, crClicks, crSrvResumes, wizStep, wizPrevStep, wizTemplate,
                   wizProjects, wizJob, wizRun, mdForm, mdCreate, mdGenerate,
                   createOthers>>

\* The Next button, rendered on every step but the last: handleNext
HandleNext ==
    /\ crPage = "wizard"
    /\ StepIndex(wizStep) < Len(Steps)
    /\ CanProceed(wizStep, wizTemplate, wizProjects, wizPersonal)
    /\ wizStep' = Steps[StepIndex(wizStep) + 1]
    /\ wizPrevStep' = wizStep
    /\ UNCHANGED <<crPage, crClicks, crSrvResumes, wizTemplate, wizProjects, wizJob,
                   wizPersonal, wizRun, mdForm, mdCreate, mdGenerate, createOthers>>

\* The Back button: handleBack
HandleBack ==
    /\ crPage = "wizard"
    /\ StepIndex(wizStep) > 1
    /\ wizStep' = Steps[StepIndex(wizStep) - 1]
    /\ wizPrevStep' = wizStep
    /\ UNCHANGED <<crPage, crClicks, crSrvResumes, wizTemplate, wizProjects, wizJob,
                   wizPersonal, wizRun, mdForm, mdCreate, mdGenerate, createOthers>>

\* The Create Resume button, rendered on the last step: createMutation.mutate()
WizardCreateClick ==
    /\ crPage = "wizard"
    /\ crClicks < MaxCreateClicks
    /\ StepIndex(wizStep) = Len(Steps)
    /\ CanProceed(wizStep, wizTemplate, wizProjects, wizPersonal)
    /\ wizRun.pc \in {"idle", "done"}
    /\ crClicks' = crClicks + 1
    /\ wizRun' = StartRun(crClicks + 1,
                          WizardCreateBody(wizTemplate, wizJob, wizProjects),
                          wizPersonal)
    /\ UNCHANGED <<crPage, crSrvResumes, wizForm, mdForm, mdCreate, mdGenerate,
                   createOthers>>

\* The wizard's create request is answered.
WizardCreateAnswer(resp) ==
    /\ wizRun.pc = "create"
    /\ crSrvResumes' = IF Ok(resp)
                       THEN SrvCreateResume(crSrvResumes, "wizard", wizRun.run)
                       ELSE crSrvResumes
    /\ wizRun' = AfterCreateAnswer(wizRun, Ok(resp), Len(crSrvResumes) + 1)
    /\ UNCHANGED <<crPage, crClicks, wizForm, mdForm, mdCreate, mdGenerate,
                   createOthers>>

\* The wizard's generate request is answered; onSuccess leaves for the editor.
WizardGenerateAnswer(resp) ==
    /\ wizRun.pc = "generate"
    /\ crSrvResumes' = IF Ok(resp)
                       THEN SrvGenerateResume(crSrvResumes, wizRun.generateId)
                       ELSE crSrvResumes
    /\ wizRun' = AfterGenerateAnswer(wizRun, Ok(resp))
    /\ IF Ok(resp)
       THEN crPage' = "none" /\ WizardUnmounts
       ELSE UNCHANGED <<crPage, wizForm>>
    /\ UNCHANGED <<crClicks, mdForm, mdCreate, mdGenerate, createOthers>>

\* The dashboard's New Resume button: CreateResumeModal mounts.
OpenModal ==
    /\ crPage = "none"
    /\ CreateIdle
    /\ crPage' = "modal"
    /\ wizRun' = NoRun
    /\ mdCreate' = NoRun
    /\ mdGenerate' = NoRun
    /\ UNCHANGED <<crClicks, crSrvResumes, wizForm, mdForm, createOthers>>

\* The modal's name input and job select.
SetModalForm(name, job) ==
    /\ crPage = "modal"
    /\ <<name, job>> # <<mdName, mdJob>>
    /\ mdName' = name
    /\ mdJob' = job
    /\ UNCHANGED <<crPage, crClicks, crSrvResumes, wizForm, wizRun, mdCreate,
                   mdGenerate, createOthers>>

\* The Create Draft button: createMutation.mutate()
CreateDraftClick ==
    /\ crPage = "modal"
    /\ crClicks < MaxCreateClicks
    /\ CreateDraftEnabled(mdName, mdCreate)
    /\ crClicks' = crClicks + 1
    /\ mdCreate' = StartRun(crClicks + 1, ModalCreateBody(mdName, mdJob), NoFields)
    /\ UNCHANGED <<crPage, crSrvResumes, wizForm, wizRun, mdForm, mdGenerate,
                   createOthers>>

\* Create Draft's request is answered: onSuccess closes the modal.
CreateDraftAnswer(resp) ==
    /\ mdCreate.pc = "create"
    /\ IF Ok(resp)
       THEN /\ crSrvResumes' = SrvCreateResume(crSrvResumes, "modalCreate", mdCreate.run)
            /\ mdCreate' = [mdCreate EXCEPT !.pc = "done", !.createAnswer = "ok",
                               !.createId = Len(crSrvResumes) + 1,
                               !.toast = "success", !.succeeded = TRUE]
            /\ crPage' = "none"
            /\ ModalUnmounts
       ELSE /\ mdCreate' = [mdCreate EXCEPT !.pc = "done", !.createAnswer = "failed",
                               !.toast = "error"]
            /\ UNCHANGED <<crSrvResumes, crPage, mdForm>>
    /\ UNCHANGED <<crClicks, wizForm, wizRun, mdGenerate, createOthers>>

\* The Generate with AI button: generateMutation.mutate()
GenerateClick ==
    /\ crPage = "modal"
    /\ crClicks < MaxCreateClicks
    /\ GenerateEnabled(mdName, mdJob, mdGenerate)
    /\ crClicks' = crClicks + 1
    /\ mdGenerate' = StartRun(crClicks + 1, ModalCreateBody(mdName, mdJob), NoFields)
    /\ UNCHANGED <<crPage, crSrvResumes, wizForm, wizRun, mdForm, mdCreate,
                   createOthers>>

\* generateMutation's create request is answered.
ModalCreateAnswer(resp) ==
    /\ mdGenerate.pc = "create"
    /\ crSrvResumes' = IF Ok(resp)
                       THEN SrvCreateResume(crSrvResumes, "modalGenerate", mdGenerate.run)
                       ELSE crSrvResumes
    /\ mdGenerate' = AfterCreateAnswer(mdGenerate, Ok(resp), Len(crSrvResumes) + 1)
    /\ UNCHANGED <<crPage, crClicks, wizForm, wizRun, mdForm, mdCreate, createOthers>>

\* generateMutation's generate request is answered; onSuccess closes the modal.
ModalGenerateAnswer(resp) ==
    /\ mdGenerate.pc = "generate"
    /\ crSrvResumes' = IF Ok(resp)
                       THEN SrvGenerateResume(crSrvResumes, mdGenerate.generateId)
                       ELSE crSrvResumes
    /\ mdGenerate' = AfterGenerateAnswer(mdGenerate, Ok(resp))
    /\ IF Ok(resp)
       THEN crPage' = "none" /\ ModalUnmounts
       ELSE UNCHANGED <<crPage, mdForm>>
    /\ UNCHANGED <<crClicks, wizForm, wizRun, mdCreate, createOthers>>

\* The page is left with nothing in flight: the wizard's back link, the
\* modal's Cancel.
ClosePage ==
    /\ crPage # "none"
    /\ CreateIdle
    /\ crPage' = "none"
    /\ WizardUnmounts
    /\ ModalUnmounts
    /\ UNCHANGED <<crClicks, crSrvResumes, wizRun, mdCreate, mdGenerate, createOthers>>

NextCreate ==
    \/ OpenWizard
    \/ \E id \in TemplateIds : SelectTemplate(id)
    \/ \E id \in ProjectIds : ClickProject(id)
    \/ \E id \in JobIds \cup {""} : SelectJob(id)
    \/ \E name \in PersonalNames, email \in PersonalEmails : SetPersonalInfo(name, email)
    \/ HandleNext
    \/ HandleBack
    \/ WizardCreateClick
    \/ \E resp \in UiResponses : WizardCreateAnswer(resp)
    \/ \E resp \in UiResponses : WizardGenerateAnswer(resp)
    \/ OpenModal
    \/ \E name \in ResumeNames, job \in JobIds \cup {""} : SetModalForm(name, job)
    \/ CreateDraftClick
    \/ \E resp \in UiResponses : CreateDraftAnswer(resp)
    \/ GenerateClick
    \/ \E resp \in UiResponses : ModalCreateAnswer(resp)
    \/ \E resp \in UiResponses : ModalGenerateAnswer(resp)
    \/ ClosePage

-----------------------------------------------------------------------------
(***************************************************************************)
(* The GitHub OAuth callback route; its source is the listing at the end   *)
(* of PRODUCTION_CHANGES.md.  searchParams.get yields null or a string;    *)
(* "" stands for both, which the route's truthiness tests do not tell      *)
(* apart.                                                                  *)
(***************************************************************************)

\* Bound: the number of callback requests the model serves.
MaxCallbacks == 2

\* The query parameters GitHub sends back.
CallbackCodes == {"", "abc"}
CallbackErrors == {"", "access_denied"}

\* What the body of the backend's answer is: JSON with access_token, JSON
\* without it, or not JSON at all.
ExchangeBodies == {"access_token", "detail", "not json"}

\* No exchange was made.
NoExchange == [called |-> FALSE, resp |-> NetworkError, body |-> "not json"]

\* A redirect to /dashboard with its query parameters, "" for none.
DashboardRedirect(github, token, error) ==
    [path |-> "/dashboard", github |-> github, token |-> token, error |-> error]

\* The route's answer when it makes no exchange, NoFields when it makes one.
RedirectBeforeExchange(code, error) ==
    IF error # "" THEN DashboardRedirect("", "", "github_auth_failed")
    ELSE IF code = "" THEN DashboardRedirect("", "", "no_code")
    ELSE NoFields

\* tokenData.access_token, as it is interpolated into the redirect URL.
AccessTokenOf(body) == IF body = "access_token" THEN "jwt2" ELSE "undefined"

\* The route's answer after the exchange: a fetch that rejects and a body
\* that does not parse both land in the catch.
RedirectAfterExchange(resp, body) ==
    IF ~resp.received \/ body = "not json"
    THEN DashboardRedirect("", "", "callback_failed")
    ELSE IF ~Ok(resp) THEN DashboardRedirect("", "", "token_exchange_failed")
    ELSE DashboardRedirect("connected", AccessTokenOf(body), "")

CbInit ==
    /\ cbPc = "idle"
    /\ cbCode = ""
    /\ cbBackendCalls = 0
    /\ cbLog = <<>>

\* GET /api/auth/callback/github, up to its answer or its await.
CallbackGet(code, error) ==
    /\ cbPc = "idle"
    /\ Len(cbLog) < MaxCallbacks
    /\ IF RedirectBeforeExchange(code, error) # NoFields
       THEN /\ cbLog' = Append(cbLog, [code |-> code, error |-> error,
                                       exchange |-> NoExchange,
                                       redirect |-> RedirectBeforeExchange(code, error)])
            /\ UNCHANGED <<cbPc, cbCode, cbBackendCalls>>
       ELSE /\ cbPc' = "exchange"
            /\ cbCode' = code
            /\ cbBackendCalls' = cbBackendCalls + 1
            /\ UNCHANGED cbLog
    /\ UNCHANGED cbOthers

\* The backend's answer to the code exchange arrives, or the fetch rejects.
CallbackExchangeAnswer(resp, body) ==
    /\ cbPc = "exchange"
    /\ cbPc' = "idle"
    /\ cbLog' = Append(cbLog, [code |-> cbCode, error |-> "",
                               exchange |-> [called |-> TRUE, resp |-> resp, body |-> body],
                               redirect |-> RedirectAfterExchange(resp, body)])
    /\ UNCHANGED <<cbCode, cbBackendCalls, cbOthers>>

NextCb ==
    \/ \E code \in CallbackCodes, error \in CallbackErrors : CallbackGet(code, error)
    \/ \E resp \in DashResponses, body \in ExchangeBodies : CallbackExchangeAnswer(resp, body)

-----------------------------------------------------------------------------
(***************************************************************************)
(* Download PDF, in the resume list (ResumesList, in the source file       *)
(* app/dashboard/linkedin-callback/page.tsx) and in the resume editor      *)
(* (app/dashboard/resumes/[id]/edit/page.tsx).  Both pages show what their *)
(* query last returned; pdf_path "" stands for an absent pdf_path.  The    *)
(* requests go through the shared client, whose interceptors are modelled  *)
(* with the client.                                                        *)
(***************************************************************************)

\* Bound: the number of clicks on a PDF button.
MaxDownloads == 2

\* interface Resume: status and pdf_path, as the backend returns them. Of the
\* six statuses, the model draws 'compiled' and two of the other five.
ResumeStatuses == {"generated", "compiled", "error"}
PdfPaths == {"", "/pdfs/r.pdf"}
DlResumes == [status : ResumeStatuses, pdf_path : PdfPaths]
DlResumeIds == {"r1", "r2"}

\* Editor: the Download PDF button is enabled.
EditorDownloadEnabled(resume) == resume.status = "compiled"

\* List: the PDF button is rendered on the resume's card.
ListPdfShownByStatus(resume) == resume.status = "compiled"
ListPdfShown(resume) == resume.status = "compiled" /\ resume.pdf_path # ""

\* ResumesList.downloadPdf up to its await: the request it sends, NoDownload
\* when it returns without one.
NoDownload == ""
ListDownloadRequest(id, resume) ==
    IF resume.pdf_path = "" THEN NoDownload ELSE "/resumes/" \o id \o "/download"

\* handleDownload of the editor up to its await: resumesApi.downloadPdf.
EditorDownloadRequest(id) == "/api/resumes/" \o id \o "/pdf"

\* The resume the editor is open on.
EditedResume == "r1"

DlInit ==
    /\ dlList \in [DlResumeIds -> {[status |-> "generated", pdf_path |-> ""]}]
    /\ dlEditor = [status |-> "generated", pdf_path |-> ""]
    /\ dlClicks = 0
    /\ dlInflight = {}
    /\ dlLog = {}
    /\ dlToasts = {}

\* The list's query returns.
ListQueryAnswer(resumes) ==
    /\ dlList' = resumes
    /\ UNCHANGED <<dlEditor, dlClicks, dlInflight, dlLog, dlToasts, dlOthers>>

\* The editor's query returns.
EditorQueryAnswer(resume) ==
    /\ dlEditor' = resume
    /\ UNCHANGED <<dlList, dlClicks, dlInflight, dlLog, dlToasts, dlOthers>>

\* A click on the PDF button of a card: downloadPdf(resume) up to its await.
ListPdfClick(id) ==
    /\ dlClicks < MaxDownloads
    /\ ListPdfShown(dlList[id])
    /\ dlClicks' = dlClicks + 1
    /\ LET req == ListDownloadRequest(id, dlList[id])
       IN /\ dlInflight' = IF req = NoDownload THEN dlInflight
                           ELSE dlInflight \cup {[page |-> "list", request |-> req]}
          /\ dlLog' = dlLog \cup
                {[page |-> "list", resume |-> dlList[id], request |-> req]}
          /\ dlToasts' = IF req = NoDownload
                         THEN dlToasts \cup {"PDF not available"} ELSE dlToasts
    /\ UNCHANGED <<dlList, dlEditor, dlOthers>>

\* A click on the editor's Download PDF button: handleDownload up to its
\* await.
EditorDownloadClick ==
    /\ dlClicks < MaxDownloads
    /\ EditorDownloadEnabled(dlEditor)
    /\ dlClicks' = dlClicks + 1
    /\ LET req == EditorDownloadRequest(EditedResume)
       IN /\ dlInflight' = dlInflight \cup {[page |-> "editor", request |-> req]}
          /\ dlLog' = dlLog \cup
                {[page |-> "editor", resume |-> dlEditor, request |-> req]}
    /\ UNCHANGED <<dlList, dlEditor, dlToasts, dlOthers>>

\* A download comes back: the file is handed to the browser, or the catch
\* toasts.
DownloadAnswer(d, resp) ==
    /\ d \in dlInflight
    /\ dlInflight' = dlInflight \ {d}
    /\ dlToasts' = IF Ok(resp) THEN dlToasts
                   ELSE dlToasts \cup {IF d.page = "list" THEN "Failed to download PDF"
                                       ELSE "Failed to download PDF."}
    /\ UNCHANGED <<dlList, dlEditor, dlClicks, dlLog, dlOthers>>

NextDl ==
    \/ \E resumes \in [DlResumeIds -> DlResumes] : ListQueryAnswer(resumes)
    \/ \E resume \in DlResumes : EditorQueryAnswer(resume)
    \/ \E id \in DlResumeIds : ListPdfClick(id)
    \/ EditorDownloadClick
    \/ \E d \in dlInflight, resp \in DashResponses : DownloadAnswer(d, resp)

-----------------------------------------------------------------------------
(***************************************************************************)
(* Import from GitHub: GithubImportModal and projectsApi.importGithub.     *)
(* Text is a sequence of pieces, "/" and ".git" being pieces of their own, *)
(* so that the regular expression's [^\/]+ and String.replace('.git', '')  *)
(* work on the text as the code's do on its characters.                    *)
(***************************************************************************)

\* Bound: the number of clicks on Import Repository.
MaxImports == 2

\* The pieces a URL is built from.
Scheme == <<"https:", "/", "/">>
Hosts == {"github.com", "gitlab.com"}
Owners == {"alice"}
\* Repository names: repo, repo.git, site.github.io; <<>> when the URL has
\* no repository part.
RepoNames == { <<>>, <<"repo">>, <<"repo", ".git">>, <<"site", ".git", "hub.io">> }
Rests == { <<>>, <<"/", "tree", "/", "main">> }

NoParts == [host |-> "", owner |-> "", repo |-> <<>>, rest |-> <<>>]
UrlParts == [host : Hosts, owner : Owners, repo : RepoNames, rest : Rests]

\* The text of a URL with these parts; "" (no pieces) for no URL.
UrlText(p) ==
    IF p = NoParts THEN <<>>
    ELSE Scheme \o <<p.host, "/", p.owner>>
         \o (IF p.repo = <<>> THEN <<>> ELSE <<"/">> \o p.repo \o p.rest)

\* The URLs the user types, and the html_url values the dropdown offers.
TypedUrls == { p \in UrlParts : p.repo = <<>> => p.rest = <<>> }
DropdownRepos == { p \in UrlParts : p.host = "github.com" /\ p.rest = <<>>
                                    /\ p.repo \in {<<"repo">>, <<"site", ".git", "hub.io">>} }

\* [^\/]+ from position i: the number of pieces it takes (it is greedy, and
\* what follows it in the expression is a "/" or nothing).
RECURSIVE Run(_, _)
Run(t, i) == IF i > Len(t) \/ t[i] = "/" THEN 0 ELSE 1 + Run(t, i + 1)

\* /github\.com\/([^\/]+)\/([^\/]+)/ matches from position i.
MatchAt(t, i) ==
    /\ i + 1 <= Len(t) /\ t[i] = "github.com" /\ t[i + 1] = "/"
    /\ LET o == Run(t, i + 2)
       IN /\ o > 0
          /\ i + 2 + o <= Len(t) /\ t[i + 2 + o] = "/"
          /\ Run(t, i + 3 + o) > 0

\* url.match(...): null, or the groups of the leftmost match.
NoMatch == [found |-> FALSE, owner |-> <<>>, repo |-> <<>>]
UrlMatch(t) ==
    LET at == { i \in 1..Len(t) : MatchAt(t, i) }
    IN IF at = {} THEN NoMatch
       ELSE LET i == CHOOSE j \in at : \A k \in at : j <= k
                o == Run(t, i + 2)
                r == Run(t, i + 3 + o)
            IN [found |-> TRUE,
                owner |-> SubSeq(t, i + 2, i + 1 + o),
                repo  |-> SubSeq(t, i + 3 + o, i + 2 + o + r)]

\* String.prototype.replace('.git', ''): the first occurrence goes.
RECURSIVE ReplaceDotGit(_)
ReplaceDotGit(t) ==
    IF t = <<>> THEN <<>>
    ELSE IF Head(t) = ".git" THEN Tail(t)
    ELSE <<Head(t)>> \o ReplaceDotGit(Tail(t))

\* projectsApi.importGithub(owner, repo): the one entry of repo_urls.
ImportGithubBody(owner, repo) == Scheme \o <<"github.com", "/">> \o owner \o <<"/">> \o repo

\* importMutation.mutationFn up to its await: the repo_urls entry it sends,
\* NoImport when it throws 'Invalid GitHub URL'.
NoImport == <<>>
ImportRequest(url) ==
    LET match == UrlMatch(url)
    IN IF ~match.found THEN NoImport
       ELSE ImportGithubBody(match.owner, ReplaceDotGit(match.repo))

\* The Import Repository button is enabled.
ImportEnabled(mode, repoUrl, selectedRepo, pending) ==
    /\ ~(mode = "url" /\ repoUrl = <<>>)
    /\ ~(mode = "dropdown" /\ selectedRepo = <<>>)
    /\ ~pending

ImpInit ==
    /\ impMode = "dropdown"
    /\ impRepoUrl = <<>>
    /\ impSelectedRepo = <<>>
    /\ impEntered = [url |-> NoParts, dropdown |-> NoParts]
    /\ impPending = NoImport
    /\ impCount = 0
    /\ impLog = {}

\* The two mode buttons.
SetImportMode(mode) ==
    /\ impMode' = mode
    /\ UNCHANGED <<impRepoUrl, impSelectedRepo, impEntered, impPending, impCount,
                   impLog, impOthers>>

\* Typing into the URL input (url mode).
SetRepoUrl(p) ==
    /\ impMode = "url"
    /\ impRepoUrl' = UrlText(p)
    /\ impEntered' = [impEntered EXCEPT !.url = p]
    /\ UNCHANGED <<impMode, impSelectedRepo, impPending, impCount, impLog, impOthers>>

\* Picking a repository in the dropdown (dropdown mode).
SetSelectedRepo(p) ==
    /\ impMode = "dropdown"
    /\ impSelectedRepo' = UrlText(p)
    /\ impEntered' = [impEntered EXCEPT !.dropdown = p]
    /\ UNCHANGED <<impMode, impRepoUrl, impPending, impCount, impLog, impOthers>>

\* Import Repository: importMutation.mutate(); mutationFn runs to its await,
\* or throws and onError toasts the error's message.
ImportClick ==
    /\ impCount < MaxImports
    /\ ImportEnabled(impMode, impRepoUrl, impSelectedRepo, impPending # NoImport)
    /\ impCount' = impCount + 1
    /\ LET url == IF impMode = "url" THEN impRepoUrl ELSE impSelectedRepo
           parts == IF impMode = "url" THEN impEntered.url ELSE impEntered.dropdown
           req == ImportRequest(url)
       IN /\ impPending' = req
          /\ impLog' = impLog \cup
                {[url |-> url, parts |-> parts, request |-> req,
                  toast |-> IF req = NoImport THEN "Invalid GitHub URL" ELSE NoToast]}
    /\ UNCHANGED <<impMode, impRepoUrl, impSelectedRepo, impEntered, impOthers>>

\* The import comes back: onSuccess toasts and closes the modal, whose next
\* opening starts from its initial state; onError toasts.
ImportAnswer(resp) ==
    /\ impPending # NoImport
    /\ impPending' = NoImport
    /\ IF Ok(resp)
       THEN /\ impMode' = "dropdown"
            /\ impRepoUrl' = <<>>
            /\ impSelectedRepo' = <<>>
            /\ impEntered' = [url |-> NoParts, dropdown |-> NoParts]
       ELSE UNCHANGED <<impMode, impRepoUrl, impSelectedRepo, impEntered>>
    /\ UNCHANGED <<impCount, impLog, impOthers>>

NextImp ==
    \/ \E mode \in {"dropdown", "url"} : SetImportMode(mode)
    \/ \E p \in TypedUrls \cup {NoParts} : SetRepoUrl(p)
    \/ \E p \in DropdownRepos \cup {NoParts} : SetSelectedRepo(p)
    \/ ImportClick
    \/ \E resp \in DashResponses : ImportAnswer(resp)

-----------------------------------------------------------------------------
(***************************************************************************)
(* Claims about the relevance scorer.                                      *)
(***************************************************************************)

\* The ids of the projects selected, and of those left out.
SelectedIds == { selected[i].id : i \in DOMAIN selected }
LeftOutIds == DOMAIN projects \ SelectedIds

\* w, a normalised token, occurs in the token list s whatever its case there.
OccursIgnoringCase(w, s) == \E i \in DOMAIN s : Lower(s[i]) = w

\* The normalised tokens that occur both in the keywords and in one of the
\* project's three texts.
CommonTokens(kw, p) ==
    { w \in { Lower(t) : t \in Tokens } :
        /\ OccursIgnoringCase(w, kw)
        /\ \/ OccursIgnoringCase(w, p.title)
           \/ OccursIgnoringCase(w, p.description)
           \/ OccursIgnoringCase(w, p.technologies) }

\* C1: the relevance score of every project equals the number of distinct
\* tokens that occur, ignoring case, both in the job description's keywords
\* and in the project's title, description or technologies; a token occurring
\* several times counts once.
C1_ScoreIsOverlapCount ==
    rankDone =>
        /\ DOMAIN scores = DOMAIN projects
        /\ \A i \in DOMAIN projects :
              scores[i] = Cardinality(CommonTokens(jdKeywords, projects[i]))

\* A project matched in another case ("REACT" against "react", "python"
\* against "Python") and on a token it repeats, scored once per token.
C1_Witness ==
    /\ rankDone
    /\ jdKeywords = <<"Python", "react">>
    /\ \E i \in DOMAIN projects :
          /\ projects[i].title = <<"Python">>
          /\ projects[i].description = <<"react", "react">>
          /\ projects[i].technologies = <<"python", "docker">>
          /\ scores[i] = 2

\* C2: the ranking holds exactly min(TopK, n) distinct projects of the list,
\* each with its score, in descending score order, and no project left out
\* scores strictly higher than a project selected.
C2_TopKByScore ==
    rankDone =>
        /\ Len(selected) = Min(TopK, Len(projects))
        /\ SelectedIds \subseteq DOMAIN projects
        /\ Cardinality(SelectedIds) = Len(selected)
        /\ \A i \in DOMAIN selected : selected[i].score = scores[selected[i].id]
        /\ \A i, j \in DOMAIN selected :
              i < j => selected[i].score >= selected[j].score
        /\ \A q \in LeftOutIds : \A i \in DOMAIN selected :
              scores[q] <= selected[i].score

\* More projects than TopK, with the best one inserted last and a project
\* left out that scores strictly less than every project selected.
C2_Witness ==
    /\ rankDone
    /\ Len(projects) > TopK
    /\ Len(selected) = TopK
    /\ selected[1].id = Len(projects)
    /\ selected[1].score > selected[TopK].score
    /\ \E q \in LeftOutIds : scores[q] < selected[TopK].score

\* C3: projects with equal scores keep their insertion order in the ranking,
\* and when a tie straddles the cut-off the earlier-inserted project is the
\* one selected.
C3_StableTies ==
    rankDone =>
        /\ \A i, j \in DOMAIN selected :
              (i < j /\ selected[i].score = selected[j].score)
                  => selected[i].id < selected[j].id
        /\ \A q \in LeftOutIds : \A i \in DOMAIN selected :
              scores[q] = selected[i].score => selected[i].id < q

\* A tie inside the ranking and a tie across the cut-off, on a positive score.
C3_Witness ==
    /\ rankDone
    /\ Len(selected) = TopK
    /\ selected[TopK - 1].score = selected[TopK].score
    /\ selected[TopK].score > 0
    /\ selected[1].score > selected[TopK].score
    /\ \E q \in LeftOutIds : scores[q] = selected[TopK].score

\* C4: with an empty keyword set every project scores 0 and the ranking is
\* the original project order truncated to TopK.
C4_EmptyKeywords ==
    (rankDone /\ jdKeywords = <<>>) =>
        /\ \A i \in DOMAIN projects : scores[i] = 0
        /\ selected = [i \in 1..Min(TopK, Len(projects)) |-> [id |-> i, score |-> 0]]

\* An empty keyword set ranked against more projects than TopK.
C4_Witness ==
    /\ rankDone
    /\ jdKeywords = <<>>
    /\ Len(projects) > TopK
    /\ Len(selected) = TopK

-----------------------------------------------------------------------------
(***************************************************************************)
(* Claims about the shared API client.                                     *)
(***************************************************************************)

\* C7: every request sent through the client carries 'Authorization: Bearer
\* <token>' with the token localStorage held when it was sent, and no
\* Authorization header when no token was stored.
C7_AuthHeaderIsStoredToken ==
    \A r \in inflight :
        /\ r.stored # NoToken => r.auth = <<"Bearer", r.stored>>
        /\ r.stored = NoToken => r.auth = NoHeader

\* A request in flight with a Bearer header whose token is no longer the
\* stored one, beside one sent with no token and no header.
C7_Witness ==
    /\ \E r \in inflight : r.auth # NoHeader /\ r.auth[2] # lsToken
    /\ \E r \in inflight : r.auth = NoHeader

\* C8: a 401 response removes the stored token, sends the browser to /login
\* and is rejected to the caller; any other error response, or an error with
\* no response, is rejected and leaves the token and the location unchanged.
C8_UnauthorizedClearsSession ==
    [][\A d \in delivered' \ delivered :
          IsError(d.resp) =>
              /\ d.outcome = "rejected"
              /\ IF d.resp.received /\ d.resp.status = 401
                 THEN lsToken' = NoToken /\ location' = "/login"
                 ELSE lsToken' = lsToken /\ location' = location]_vars

\* A request sent with a token was answered 401 on the dashboard and the
\* session is gone; another was answered 500.
C8_Witness ==
    /\ \E d \in delivered :
          /\ d.resp = HttpResponse(401)
          /\ d.auth # NoHeader
          /\ d.kind = "data"
          /\ d.outcome = "rejected"
    /\ \E d \in delivered : d.resp = HttpResponse(500) /\ d.outcome = "rejected"
    /\ lsToken = NoToken
    /\ location = "/login"

\* C21: after a logout, or after a 401 that the client's response interceptor
\* handled, no request sent through the client carries an Authorization
\* header until login, register or the GitHub callback stores a new token.
C21_NoHeaderAfterSessionEnd ==
    [][\A r \in inflight' \ inflight :
          tokenWriter \in {"logout", "unauthorized"} => r.auth = NoHeader]_vars

\* A request sent after the logout left without a header, and one sent later,
\* after the GitHub callback had stored a new token, carries that token.
C21_Witness ==
    \E r1, r2 \in inflight :
        /\ r1.after = "logout" /\ r1.auth = NoHeader
        /\ r2.id > r1.id
        /\ r2.after = "github" /\ r2.auth = <<"Bearer", "jwt2">>

-----------------------------------------------------------------------------
(***************************************************************************)
(* Claims about the dashboard page.                                        *)
(***************************************************************************)

\* C9: with NEXT_PUBLIC_API_URL configured, every backend request the
\* dashboard page issues targets the configured host, and none targets the
\* hardcoded http://localhost:8000.
C9_RequestsTargetConfiguredHost ==
    envApiUrl # "" =>
        \A r \in dashRequests :
            r.base = envApiUrl /\ r.base # "http://localhost:8000"

\* C20: opened with github=connected and a token parameter, the page stores
\* the token before the user load reads localStorage, so the load goes on to
\* the profile request with that token and does not redirect to /login;
\* opened with nothing stored and no token parameter, the page redirects to
\* /login and sends no backend request; and a 401 answer to the profile load
\* removes the token and redirects to /login.
C20_MountStep == loadUserPc = "unmounted" /\ loadUserPc' # "unmounted"
C20_UnauthorizedStep ==
    /\ loadUserPc = "profile" /\ loadUserPc' # "profile"
    /\ dashLoad'.profileResp = HttpResponse(Unauthorized)
-----------------------------------------------------------------------------
(***************************************************************************)
(* Claims about the frontend's error paths.                                *)
(***************************************************************************)

\* C6: every user-triggered request that ends in an HTTP error response
\* (4xx or 5xx) produces a toast.
C6_EveryErrorResponseToasts ==
    \A o \in uiOutcomes :
        (o.resp.received /\ o.resp.status >= 400 /\ o.resp.status <= 599)
            => o.toast # NoToast

-----------------------------------------------------------------------------
(***************************************************************************)
(* Claims about writing and reading back.                                  *)
(***************************************************************************)

C24_SaveStarts == profilePut = NoPut /\ profilePut' # NoPut
C24_SaveFinishes == profilePut # NoPut /\ ~profilePut.orphan /\ profilePut' = NoPut
C24_SavingFlagGuardsSave ==
    [][ /\ C24_SaveStarts => (~saving /\ saving')
        /\ C24_SaveFinishes =>
              /\ saving /\ ~saving'
              /\ Len(saveToasts') = Len(saveToasts) + 1
              /\ IF profilePut.resp.ok
                 THEN /\ profile' = profilePut.resp.data
                      /\ profile' = srvProfile
                      /\ saveToasts'[Len(saveToasts')] = "Success"
                 ELSE /\ profile' = profile
                      /\ profile' # NoProfile
                      /\ saveToasts'[Len(saveToasts')] = "Error" ]_vars

\* A save of an edited profile failed and left the edit on screen; the next
\* save of it succeeded and the profile shown is the backend's answer.
C24_Witness ==
    /\ saveToasts = <<"Error", "Success">>
    /\ ~saving
    /\ profilePut = NoPut
    /\ profileFromServer
    /\ profile = srvProfile
    /\ profile.certifications = "v2"

-----------------------------------------------------------------------------
(***************************************************************************)
(* Claims about the API-key rotation.                                      *)
(***************************************************************************)

\* C11: within one request every LLM call but the last ended in a quota error
\* and is followed by a call with the next key in round-robin order; no key
\* is called twice, so at most NumKeys calls are made; a call is retried only
\* after a quota error and only while a key is left; and a request that
\* failed ended on another error or on quota errors from every key.
C11_RotationIsBoundedRoundRobin ==
    LET n == Len(llmAttempts) IN
    /\ n <= NumKeys
    /\ \A i \in 1..(n - 1) :
          /\ llmAttempts[i].outcome = "quota"
          /\ llmAttempts[i + 1].key = (llmAttempts[i].key % NumKeys) + 1
    /\ \A i, j \in 1..n : i # j => llmAttempts[i].key # llmAttempts[j].key
    /\ (llmPc = "calling" /\ n > 0) => (llmAttempts[n].outcome = "quota" /\ n < NumKeys)
    /\ (llmPc = "idle" /\ n > 0) =>
          /\ llmResults[Len(llmResults)] = "ok" <=> llmAttempts[n].outcome = "ok"
          /\ llmAttempts[n].outcome = "quota" => n = NumKeys

\* A request that started on the second key wrapped round to the first, got a
\* quota error from every key and failed.
C11_Witness ==
    /\ llmPc = "idle"
    /\ Len(llmAttempts) = NumKeys
    /\ llmAttempts[1].key = 2
    /\ llmAttempts[NumKeys].key = 1
    /\ \A i \in 1..NumKeys : llmAttempts[i].outcome = "quota"
    /\ llmResults[Len(llmResults)] = "failed"

-----------------------------------------------------------------------------
(***************************************************************************)
(* Claims about the resume editor.                                         *)
(***************************************************************************)

\* C12: whenever the editor is on screen and hasUnsavedChanges is false, the
\* editor content equals the content last saved to the server.
C12_SavedFlagMeansSaved ==
    (edLoaded /\ ~edUnsaved) => edLatex = edSrvLatex

\* C13: once the resume has loaded, the editor holds the text the user last
\* left in it: no answer of the server replaces it.
C13_TypedTextIsKept ==
    edLoaded => edLatex = edTyped

\* C14: a run of Compile started with hasUnsavedChanges true has sent an
\* updateLatex request with the editor content of that moment, and has sent
\* its compile request only once that updateLatex succeeded, never after it
\* failed; a run started with hasUnsavedChanges false has sent the compile
\* request and no updateLatex request.
C14_CompileSavesFirst ==
    LET r == edCompileRun IN
    r.pc # "idle" =>
        /\ r.unsaved => (r.saveSent /\ r.saveBody = r.content)
        /\ (r.unsaved /\ r.compileSent) => r.saveAnswer = "ok"
        /\ r.saveAnswer = "failed" => ~r.compileSent
        /\ r.pc = "saving" => ~r.compileSent
        /\ ~r.unsaved => (~r.saveSent /\ r.compileSent)

\* A compile with unsaved changes saved them and the backend holds them; an
\* earlier state of the same kind is the run whose save failed.
C14_Witness ==
    /\ edCompileRun.pc = "done"
    /\ edCompileRun.unsaved
    /\ edCompileRun.saveAnswer = "ok"
    /\ edCompileRun.compileSent
    /\ edCompileRun.saveBody = "\\section{A}"
    /\ edSrvLatex = "\\section{A}"
    /\ edSrvStatus = "compiled"

-----------------------------------------------------------------------------
(***************************************************************************)
(* Claims about creating a resume.                                         *)
(***************************************************************************)

\* The runs that create and then generate, with the name the backend files
\* their resumes under.
GeneratingRuns ==
    { [by |-> "wizard", r |-> wizRun], [by |-> "modalGenerate", r |-> mdGenerate] }

\* The resumes on the server that a run created.
CreatedBy(by, run) ==
    { i \in DOMAIN crSrvResumes : crSrvResumes[i].by = by /\ crSrvResumes[i].run = run }

\* C15: a run of the wizard's Create Resume or of the modal's Generate with
\* AI that ended in its error toast has created no resume on the server.
C15_ErrorToastMeansNothingCreated ==
    \A g \in GeneratingRuns :
        g.r.toast = "error" => CreatedBy(g.by, g.r.run) = {}

\* C16: a run has sent its generate request only after its create request
\* succeeded, with the id that create returned for the resume it created, and
\* its success path has run only after the generate request succeeded.
C16_CreateThenGenerate ==
    \A g \in GeneratingRuns :
        /\ g.r.pc = "create" => ~g.r.generateSent
        /\ g.r.generateSent =>
              /\ g.r.createAnswer = "ok"
              /\ g.r.generateId = g.r.createId
              /\ CreatedBy(g.by, g.r.run) = {g.r.generateId}
        /\ g.r.succeeded => g.r.generateAnswer = "ok"
        /\ g.r.createAnswer = "failed" => (~g.r.generateSent /\ ~g.r.succeeded)

\* The wizard created the second resume of the server, generated it and left
\* for the editor, after an earlier run whose resume was never generated.
C16_Witness ==
    /\ wizRun.succeeded
    /\ wizRun.createId = 2
    /\ wizRun.generateId = 2
    /\ Len(crSrvResumes) = 2
    /\ crSrvResumes[2].generated
    /\ ~crSrvResumes[1].generated

\* C17: the modal never has two create requests in flight, one from Create
\* Draft and one from Generate with AI.
C17_OneCreateAtATime ==
    ~(mdCreate.pc = "create" /\ mdGenerate.pc = "create")

\* C18: the wizard's step is one of the four steps and is at most one step
\* from the step before; on the job and personal steps a template and at
\* least one project are selected; and every run of Create Resume was
\* started with a template id, a non-empty project list, a non-empty resume
\* name and a non-empty personal name and email.
C18_WizardStepsAreGuarded ==
    /\ \E i \in DOMAIN Steps : Steps[i] = wizStep
    /\ StepIndex(wizStep) - StepIndex(wizPrevStep) \in {-1, 0, 1}
    /\ wizStep \in {"job", "personal"} =>
          (wizTemplate \in TemplateIds /\ Len(wizProjects) > 0)
    /\ wizRun.pc # "idle" =>
          /\ wizRun.body.template_id \in TemplateIds
          /\ Len(wizRun.body.project_ids) > 0
          /\ wizRun.body.name # ""
          /\ wizRun.personal.name # ""
          /\ wizRun.personal.email # ""

\* Create Resume was clicked on the personal step, reached from the job step,
\* with a job chosen and both projects selected, the second one first.
C18_Witness ==
    /\ wizRun.pc = "create"
    /\ wizStep = "personal"
    /\ wizPrevStep = "job"
    /\ wizRun.body.project_ids = <<"prj-2", "prj-1">>
    /\ "job_description_id" \in DOMAIN wizRun.body
    /\ wizRun.body.job_description_id = "job-1"
    /\ wizRun.personal = [name |-> "Ann", email |-> "ann@example.com"]

-----------------------------------------------------------------------------
(***************************************************************************)
(* Claims about the GitHub OAuth callback route.                           *)
(***************************************************************************)

\* C19: every request served was answered with a redirect to /dashboard;
\* the redirect carries github=connected and a token only when the backend
\* answered the exchange with a success status, and otherwise the one error
\* code of its case: github_auth_failed for an error parameter (no exchange
\* made), no_code for a missing code (no exchange made), token_exchange_failed
\* for a non-OK answer, callback_failed when the exchange threw.
C19_CallbackRedirects ==
    \A i \in DOMAIN cbLog :
        LET e == cbLog[i]
            x == e.exchange
            r == e.redirect
        IN /\ r.path = "/dashboard"
           /\ r.github = "connected" =>
                 (x.called /\ Ok(x.resp) /\ r.token # "" /\ r.error = "")
           /\ r.github # "connected" =>
                 /\ r.token = ""
                 /\ r.error =
                       (IF e.error # "" THEN "github_auth_failed"
                        ELSE IF e.code = "" THEN "no_code"
                        ELSE IF x.resp.received /\ ~Ok(x.resp) THEN "token_exchange_failed"
                        ELSE "callback_failed")
           /\ (e.error # "" \/ e.code = "") => ~x.called

-----------------------------------------------------------------------------
(***************************************************************************)
(* Claims about Download PDF.                                              *)
(***************************************************************************)

-----------------------------------------------------------------------------
(***************************************************************************)
(* Claims about importing from GitHub.                                     *)
(***************************************************************************)

\* The repository name with a trailing .git suffix removed, and nothing else.
StripTrailingDotGit(repo) ==
    IF repo # <<>> /\ repo[Len(repo)] = ".git" THEN SubSeq(repo, 1, Len(repo) - 1)
    ELSE repo

\* C23: an import of a URL with no github.com/<owner>/<repo> part fails with
\* 'Invalid GitHub URL' and sends no request; an import of any other URL
\* sends the one repo_urls entry https://github.com/<owner>/<repo>, <repo>
\* being the URL's repository name with only a trailing .git removed.
C23_ImportSendsOwnerAndRepo ==
    \A e \in impLog :
        IF e.parts.host = "github.com" /\ e.parts.repo # <<>>
        THEN e.request = Scheme \o <<"github.com", "/", e.parts.owner, "/">>
                         \o StripTrailingDotGit(e.parts.repo)
        ELSE e.request = NoImport /\ e.toast = "Invalid GitHub URL"

-----------------------------------------------------------------------------
\* The state after construction: nobody is logged in, nothing is stored, and
\* NEXT_PUBLIC_API_URL is unset (a development build).
Init ==
    /\ RankInit
    /\ ApiInit
    /\ envApiUrl = ""
    /\ DashInit
    /\ UiInit
    /\ CrudInit
    /\ LlmInit
    /\ EditorInit
    /\ CreateInit
    /\ CbInit
    /\ DlInit
    /\ ImpInit

\* The dashboard of a deployment, opened in a browser that may hold a token
\* from an earlier login.
InitDash ==
    /\ RankInit
    /\ lsToken \in {NoToken} \cup AccessTokens
    /\ location = "/login"
    /\ nextReq = 1
    /\ inflight = {}
    /\ delivered = {}
    /\ tokenWriter = (IF lsToken = NoToken THEN "none" ELSE "login")
    /\ envApiUrl \in DeployedApiUrls
    /\ DashInit
    /\ UiInit
    /\ CrudInit
    /\ LlmInit
    /\ EditorInit
    /\ CreateInit
    /\ CbInit
    /\ DlInit
    /\ ImpInit

Next ==
    \/ NextRank
    \/ NextApi
    \/ NextDash
    \/ NextUi
    \/ NextCrud
    \/ NextLlm
    \/ NextEditor
    \/ NextCreate
    \/ NextCb
    \/ NextDl
    \/ NextImp

\* The whole program.
Spec == Init /\ [][Next]_vars

\* One component at a time, the others idle.
SpecRank == Init /\ [][NextRank]_vars
SpecApi == Init /\ [][NextApi]_vars
SpecDash == InitDash /\ [][NextDash]_vars
SpecSession == Init /\ [][NextSession]_vars
SpecUi == Init /\ [][NextUi]_vars
SpecCrud == Init /\ [][NextCrud]_vars
SpecLlm == Init /\ [][NextLlm]_vars
SpecEditor == Init /\ [][NextEditor]_vars
SpecCreate == Init /\ [][NextCreate]_vars
SpecCb == Init /\ [][NextCb]_vars
SpecDl == Init /\ [][NextDl]_vars
SpecImp == Init /\ [][NextImp]_vars

=============================================================================
